---------------------------- MODULE Spec2Model ----------------------------
(***************************************************************************)
(* A model of FontArchitect: the glyph detector (connected components,     *)
(* BlobMerger, RowOrganizer), the shelf texture packer, and the editor's   *)
(* batched character identification.                                       *)
(*                                                                         *)
(* The specifications of the module:                                       *)
(*   SpecPack    packTexture applied to bounded glyph lists                *)
(*   SpecDetect  detectGlyphs applied to bounded images                    *)
(*   SpecPixel   isContentPixel applied to sample pixels                   *)
(*   SpecExport  generateFnt applied to bounded glyph lists                *)
(*   SpecApp     the editor (App.tsx): upload and identification           *)
(*   SpecEdit    the editor on small sheets: selection, deletion, merge,   *)
(*               repack, re-detection and update as well                   *)
(*   SpecLive    SpecEdit with uploads of files that are no images and     *)
(*               the delivery of every pending callback                    *)
(***************************************************************************)
EXTENDS Integers, Sequences, FiniteSets, TLC

VARIABLES
    \* ---- packTexture (one invocation) ----
    packInput,          \* the `glyphs` argument
    packPc,             \* "load" | "place" | "draw" | "resolved" | "rejected"
    items,              \* items[] after the sort by height
    targetWidth,        \* the power-of-two atlas width
    packX, packY,       \* the shelf cursor x, y
    currentRowHeight,   \* height of the open shelf
    packedItems,        \* items placed so far, with newX/newY
    packResult,         \* what the promise resolved with
    \* ---- detectGlyphs (one invocation) ----
    image,              \* the decoded pixel buffer, as painted rectangles
    detPc,              \* "scan" | "merge" | "sort" | "group" | "done"
    rawGlyphs,          \* the working glyph list
    mergedOccurred,     \* the merge loop's flag after the last pass
    lastMerge,          \* history: the pair merged by the last pass, or <<>>
    passes,             \* history: passes of the merge loop so far
    rowI,               \* the RowOrganizer's loop index i (1-based here)
    currentRow,         \* the open row
    currentRowY,        \* its running reference Y
    currentRowH,        \* its running height
    rows,               \* the closed rows
    finalGlyphs,        \* the returned list
    \* ---- the editor (App.tsx) ----
    imageSrc,           \* null ("none"), the loaded sheet, or "broken": the
                        \* data URL of a file that is no image
    glyphs,             \* React state `glyphs`
    toolState,          \* ToolState
    upPc,               \* handleFileUpload: "idle" | "decoding" (img.onload pending)
                        \* | "failing" (the image cannot be decoded)
    idPc,               \* handleIdentifyChars: "idle" | "extract" | "batch"
                        \* | "failing" (extractGlyphImages on a broken source)
    base64Images,       \* number of images extractGlyphImages was asked to crop
    batchStart,         \* the loop variable i
    allIdentifiedChars, \* Record<number,string>, as a function on its keys
    batchesSent,        \* history: identifyGlyphs calls made by the last run
    idOutcome,          \* history: how the last run ended: "none" | "applied" | "failed"
    replies,            \* history: what each batch of the last run came back with
    \* ---- the editor: selection, repack, re-detection ----
    sheet,              \* the pixels of the file the user uploads
    canvasImage,        \* the pixels behind imageSrc
    selectedGlyphIds,   \* React state `selectedGlyphIds`
    rpPc,               \* handleRepack: "idle" | "packing" (packTexture pending)
                        \* | "failing" (packTexture on a broken source)
    rpGlyphs,           \* the `glyphs` handleRepack passed to packTexture
    rpImage,            \* the pixels of the imageSrc it passed
    alPc,               \* handleAlignBaseline: "idle" | "loading" (img.onload pending)
                        \* | "failing" (its image cannot be decoded)
    alGlyphs,           \* the `glyphs` of the render in which it was clicked
    alImage,            \* the pixels of the imageSrc it loads
    sentIds,            \* history: ids of the glyphs whose crops were sent, by position
    ops,                \* history: editing operations started so far
    \* ---- generateFnt (one call) ----
    fntGlyphs,          \* the `glyphs` argument
    fntTracking,        \* settings.tracking
    fntPc,              \* "idle" | "call" | "written"
    fntText,            \* the returned string, as a sequence of characters
    \* ---- isContentPixel (one call) ----
    pixel,              \* data[idx .. idx + 3]
    background,         \* <<bgR, bgG, bgB, bgA>>
    pixPc,              \* "idle" | "call" | "returned"
    isContent           \* the value returned

packVars == <<packInput, packPc, items, targetWidth, packX, packY,
              currentRowHeight, packedItems, packResult>>
detVars  == <<image, detPc, rawGlyphs, mergedOccurred, lastMerge, passes,
              rowI, currentRow, currentRowY, currentRowH, rows, finalGlyphs>>
appVars  == <<imageSrc, glyphs, toolState, upPc, idPc, base64Images, batchStart,
              allIdentifiedChars, batchesSent, idOutcome, replies>>
rpVars   == <<rpPc, rpGlyphs, rpImage>>
alVars   == <<alPc, alGlyphs, alImage>>
editVars == <<sheet, canvasImage, selectedGlyphIds, rpVars, alVars, sentIds, ops>>
pixVars  == <<pixel, background, pixPc, isContent>>
expVars  == <<fntGlyphs, fntTracking, fntPc, fntText>>
vars     == <<packVars, detVars, appVars, pixVars, editVars, expVars>>

---------------------------------------------------------------------------
(* Generic helpers *)

Max(a, b) == IF a >= b THEN a ELSE b
Min(a, b) == IF a <= b THEN a ELSE b


\* Array.prototype.sort with a consistent comparator: the stable sort.
\* before[i][j] is "compare(s[i], s[j]) < 0".  The element at input position
\* i ends at position rank(i): after everything that sorts before it and
\* after the equal elements that preceded it.
StableSort(s, before) ==
    LET n == Len(s)
        rank(i) == 1 + Cardinality({j \in 1..n :
                        j # i /\ (before[j][i] \/ (~before[i][j] /\ j < i))})
    IN  [k \in 1..n |-> s[CHOOSE i \in 1..n : rank(i) = k]]

\* All orderings of the elements of a sequence.
Orderings(s) ==
    LET n == Len(s)
    IN  {[k \in 1..n |-> s[p[k]]] :
            p \in {q \in [1..n -> 1..n] : \A a, b \in 1..n : a # b => q[a] # q[b]}}

\* types.ts Glyph
Glyph(id, char, gx, gy, w, h, xo, yo, xa) ==
    [id |-> id, char |-> char, x |-> gx, y |-> gy, width |-> w, height |-> h,
     xoffset |-> xo, yoffset |-> yo, xadvance |-> xa]

---------------------------------------------------------------------------
(* texturePacker.ts: packTexture *)

\* const padding = 2
padding == 2

\* let targetWidth = 128
MinTargetWidth == 128

\* items = glyphs.map(g => ({id, w, h, canvas, originalGlyph}))
MakeItem(g) == [id |-> g.id, w |-> g.width, h |-> g.height, originalGlyph |-> g]

\* items.sort((a, b) => b.h - a.h)
TallerFirst(a, b) == b.h - a.h < 0
SortItems(its) ==
    StableSort(its, [i \in DOMAIN its |-> [j \in DOMAIN its |-> TallerFirst(its[i], its[j])]])

\* items.reduce((acc, item) => acc + item.w * item.h, 0)
RECURSIVE TotalArea(_)
TotalArea(its) ==
    IF its = <<>> THEN 0
    ELSE Head(its).w * Head(its).h + TotalArea(Tail(its))

\* Side without the 10% slack: Math.ceil(Math.sqrt(totalArea))
Side_NoSlack(totalArea) ==
    CHOOSE s \in 0..(totalArea + 1) :
        /\ s * s >= totalArea
        /\ s = 0 \/ (s - 1) * (s - 1) < totalArea

\* Math.ceil(Math.sqrt(totalArea * 1.1)): the least integer s with
\* s * s >= 1.1 * totalArea
Side(totalArea) ==
    CHOOSE s \in 0..(totalArea + 1) :
        /\ 10 * s * s >= 11 * totalArea
        /\ s = 0 \/ 10 * (s - 1) * (s - 1) < 11 * totalArea

\* while (targetWidth < side) targetWidth *= 2
RECURSIVE GrowWidth(_, _)
GrowWidth(tw, side) == IF tw < side THEN GrowWidth(tw * 2, side) ELSE tw
TargetWidth(its) == GrowWidth(MinTargetWidth, Side(TotalArea(its)))

\* PlaceItem with `currentRowHeight = item.h` in place of the maximum
PlaceItem_LastHeight(cur, item, tw) ==
    LET wrap == cur.x + item.w + padding > tw
        x0   == IF wrap THEN padding ELSE cur.x
        y0   == IF wrap THEN cur.y + cur.currentRowHeight + padding ELSE cur.y
    IN  [x |-> x0 + item.w + padding,
         y |-> y0,
         currentRowHeight |-> item.h,
         packedItems |-> Append(cur.packedItems,
                                [item |-> item, newX |-> x0, newY |-> y0])]

\* The body of items.forEach: `cur` is the cursor [x, y, currentRowHeight,
\* packedItems] before the item, the result is the cursor after it.
PlaceItem(cur, item, tw) ==
    LET wrap == cur.x + item.w + padding > tw
        x0   == IF wrap THEN padding ELSE cur.x
        y0   == IF wrap THEN cur.y + cur.currentRowHeight + padding ELSE cur.y
        rh0  == IF wrap THEN 0 ELSE cur.currentRowHeight
    IN  [x |-> x0 + item.w + padding,
         y |-> y0,
         currentRowHeight |-> Max(rh0, item.h),
         packedItems |-> Append(cur.packedItems,
                                [item |-> item, newX |-> x0, newY |-> y0])]

\* PackedGlyph rebuilding the record with the detector's default advance
PackedGlyph_DefaultAdvance(p) ==
    [p.item.originalGlyph EXCEPT !.x = p.newX, !.y = p.newY, !.xadvance = p.item.w + 1]

\* newGlyphs.push({...p.originalGlyph, x: p.newX, y: p.newY})
PackedGlyph(p) == [p.item.originalGlyph EXCEPT !.x = p.newX, !.y = p.newY]

\* SortById leaving newGlyphs in packing order
SortById_PackingOrder(gs) == gs

\* newGlyphs.sort((a, b) => a.id - b.id)
ById(a, b) == a.id - b.id < 0
SortById(gs) ==
    StableSort(gs, [i \in DOMAIN gs |-> [j \in DOMAIN gs |-> ById(gs[i], gs[j])]])

\* const finalHeight = y + currentRowHeight + padding
FinalHeight(cur) == cur.y + cur.currentRowHeight + padding

---------------------------------------------------------------------------
(* SpecPack: packTexture applied to bounded glyph lists *)

MaxPackGlyphs == 3
PackWidths  == {3, 60, 130}
PackHeights == {5, 120}

\* A glyph as detectGlyphs leaves it (even ids), or as the user labelled and
\* adjusted it (odd ids).
PackLabel(id) == IF id % 2 = 1 THEN "A" ELSE ""
InputGlyph(id, k, w, h, c) ==
    IF c = "" THEN Glyph(id, "", 7 * k, 3, w, h, 0, 0, w + 1)
    ELSE Glyph(id, c, 7 * k, 3, w, h, 1, 2, w + 3)

\* Ids are distinct; the list is in id order, or in reverse id order.
IdOrders(n) == {[k \in 1..n |-> k - 1], [k \in 1..n |-> n - k]}

PackInputs ==
    UNION {
        {[k \in 1..n |-> InputGlyph(ids[k], k, ws[k], hs[k], PackLabel(ids[k]))] :
            ids \in IdOrders(n), ws \in [1..n -> PackWidths],
            hs \in [1..n -> PackHeights]}
        : n \in 0..MaxPackGlyphs}

NoResult == [glyphs |-> <<>>, width |-> 0, height |-> 0]

PackIdle ==
    /\ packInput = <<>> /\ packPc = "idle" /\ items = <<>> /\ targetWidth = 0
    /\ packX = 0 /\ packY = 0 /\ currentRowHeight = 0 /\ packedItems = <<>>
    /\ packResult = NoResult

\* img.onload, steps 1-3 and the cursor's initial values
PackLoad ==
    /\ packPc = "load"
    /\ LET its == SortItems([k \in 1..Len(packInput) |-> MakeItem(packInput[k])])
       IN  /\ items' = its
           /\ targetWidth' = TargetWidth(its)
    /\ packX' = padding
    /\ packY' = padding
    /\ currentRowHeight' = 0
    /\ packedItems' = <<>>
    /\ packPc' = "place"
    /\ UNCHANGED <<packInput, packResult, detVars, appVars, pixVars, expVars, editVars>>

\* img.onerror = (err) => reject(err)
PackLoadError ==
    /\ packPc = "load"
    /\ packPc' = "rejected"
    /\ UNCHANGED <<packInput, items, targetWidth, packX, packY, currentRowHeight,
                   packedItems, packResult, detVars, appVars, pixVars, expVars, editVars>>

\* one iteration of items.forEach (step 4)
PackPlace ==
    /\ packPc = "place"
    /\ Len(packedItems) < Len(items)
    /\ LET cur == [x |-> packX, y |-> packY, currentRowHeight |-> currentRowHeight,
                   packedItems |-> packedItems]
           nxt == PlaceItem(cur, items[Len(packedItems) + 1], targetWidth)
       IN  /\ packX' = nxt.x
           /\ packY' = nxt.y
           /\ currentRowHeight' = nxt.currentRowHeight
           /\ packedItems' = nxt.packedItems
    /\ UNCHANGED <<packInput, packPc, items, targetWidth, packResult, detVars, appVars, pixVars, expVars, editVars>>

\* steps 5-6: the result canvas, the new glyph records, the sort by id, resolve
PackDraw ==
    /\ packPc = "place"
    /\ Len(packedItems) = Len(items)
    /\ packResult' =
          [glyphs |-> SortById([k \in 1..Len(packedItems) |-> PackedGlyph(packedItems[k])]),
           width  |-> targetWidth,
           height |-> FinalHeight([y |-> packY, currentRowHeight |-> currentRowHeight])]
    /\ packPc' = "resolved"
    /\ UNCHANGED <<packInput, items, targetWidth, packX, packY, currentRowHeight,
                   packedItems, detVars, appVars, pixVars, expVars, editVars>>

\* if (!ctx) { reject("Canvas context creation failed"); return; }
PackNoContext ==
    /\ packPc = "place"
    /\ Len(packedItems) = Len(items)
    /\ packPc' = "rejected"
    /\ UNCHANGED <<packInput, items, targetWidth, packX, packY, currentRowHeight,
                   packedItems, packResult, detVars, appVars, pixVars, expVars, editVars>>

---------------------------------------------------------------------------
(* imageProcessor.ts: isContentPixel and detectGlyphs, stage 1 *)

\* tolerance: number = 20
tolerance == 20

\* An image is [width, height, bg, rects]: a canvas filled with the colour bg,
\* on which the rectangles [x, y, w, h, rgba] of rects are painted in order.
\* Colours are <<r, g, b, a>>.  data[(py * width + px) * 4 ..+3]:
RECURSIVE ColourAt(_, _, _, _)
ColourAt(rects, px, py, under) ==
    IF rects = <<>> THEN under
    ELSE LET r == Head(rects)
             hit == r.x <= px /\ px < r.x + r.w /\ r.y <= py /\ py < r.y + r.h
         IN  ColourAt(Tail(rects), px, py, IF hit THEN r.rgba ELSE under)

PixelAt(img, pixelIndex) ==
    ColourAt(img.rects, pixelIndex % img.width, pixelIndex \div img.width, img.bg)

\* IsContentPixel with both comparisons inclusive: a >= tolerance, dist >= tolerance
IsContentPixel_Inclusive(px, bgR, bgG, bgB, bgA) ==
    IF bgA = 0 THEN px[4] >= tolerance
    ELSE (px[1] - bgR) * (px[1] - bgR) + (px[2] - bgG) * (px[2] - bgG)
           + (px[3] - bgB) * (px[3] - bgB) >= tolerance * tolerance

\* isContentPixel: sqrt(d) > tolerance is d > tolerance^2 for the integer d
IsContentPixel(px, bgR, bgG, bgB, bgA) ==
    IF bgA = 0 THEN px[4] > tolerance
    ELSE (px[1] - bgR) * (px[1] - bgR) + (px[2] - bgG) * (px[2] - bgG)
           + (px[3] - bgB) * (px[3] - bgB) > tolerance * tolerance

\* the background is sampled from data[0..3], the top-left pixel
IsInk(img, pixelIndex) ==
    LET bgPx == PixelAt(img, 0)
    IN  IsContentPixel(PixelAt(img, pixelIndex), bgPx[1], bgPx[2], bgPx[3], bgPx[4])

\* The pixels for which isContentPixel answers true.
InkPixels(img) == {p \in 0..(img.width * img.height - 1) : IsInk(img, p)}

\* Neighbours with the four diagonal neighbours as well (8-connectivity)
Neighbours_Diagonal(img, curr) ==
    LET cy == curr \div img.width
        cx == curr % img.width
    IN  {ny * img.width + nx : <<nx, ny>> \in
            {n \in {<<cx + dx, cy + dy>> : dx \in {-1, 0, 1}, dy \in {-1, 0, 1}} :
                n[1] >= 0 /\ n[1] < img.width /\ n[2] >= 0 /\ n[2] < img.height}}

\* The in-bounds 4-neighbours of a pixel, lines 84-92
Neighbours(img, curr) ==
    LET cy == curr \div img.width
        cx == curr % img.width
    IN  {ny * img.width + nx : <<nx, ny>> \in
            {n \in {<<cx + 1, cy>>, <<cx - 1, cy>>, <<cx, cy + 1>>, <<cx, cy - 1>>} :
                n[1] >= 0 /\ n[1] < img.width /\ n[2] >= 0 /\ n[2] < img.height}}

\* The flood fill, lines 70-103.  Over the run of the while loop the queue
\* holds exactly the ink pixels 4-connected to the seed.  The fill is computed
\* here by rounds: st is [blob, queue], the pixels visited so far and those
\* among them whose neighbours are still to be looked at; a round looks at the
\* neighbours of the whole queue.  2^k rounds are made at a time, until the
\* queue is empty.
Round(img, ink, st) ==
    LET fresh == {n \in UNION {Neighbours(img, p) : p \in st.queue} :
                    n \in ink /\ n \notin st.blob}
    IN  IF fresh = {} THEN [blob |-> st.blob, queue |-> {}]
        ELSE [blob |-> st.blob \cup fresh, queue |-> fresh]

RECURSIVE Rounds(_, _, _, _)
Rounds(img, ink, st, k) ==
    IF k = 0 THEN Round(img, ink, st)
    ELSE LET half == Rounds(img, ink, st, k - 1)
         IN  IF half.queue = {} THEN half ELSE Rounds(img, ink, half, k - 1)

RECURSIVE FloodFrom(_, _, _, _)
FloodFrom(img, ink, st, k) ==
    LET grown == Rounds(img, ink, st, k)
    IN  IF grown.queue = {} THEN grown.blob
        ELSE FloodFrom(img, ink, grown, k + 1)

Flood(img, ink, pixelIndex) ==
    FloodFrom(img, ink, [blob |-> {pixelIndex}, queue |-> {pixelIndex}], 0)

\* minX, maxX, minY, maxY over the pixels the queue held, lines 78-81
BlobBox(img, blob) ==
    LET xs == {p % img.width : p \in blob}
        ys == {p \div img.width : p \in blob}
    IN  [minX |-> CHOOSE v \in xs : \A u \in xs : v <= u,
         maxX |-> CHOOSE v \in xs : \A u \in xs : v >= u,
         minY |-> CHOOSE v \in ys : \A u \in ys : v <= u,
         maxY |-> CHOOSE v \in ys : \A u \in ys : v >= u]

\* RawGlyph with w = maxX - minX and h = maxY - minY
RawGlyph_NoPlusOne(id, box) ==
    LET w == box.maxX - box.minX
        h == box.maxY - box.minY
    IN  Glyph(id, "", box.minX, box.minY, w, h, 0, 0, w + 1)

\* RawGlyph with the counter incremented before it is read: ++glyphIdCounter
RawGlyph_PreIncrement(id, box) ==
    LET w == box.maxX - box.minX + 1
        h == box.maxY - box.minY + 1
    IN  Glyph(id + 1, "", box.minX, box.minY, w, h, 0, 0, w + 1)

\* rawGlyphs.push({id: glyphIdCounter++, char: '', x: minX, ...})
RawGlyph(id, box) ==
    LET w == box.maxX - box.minX + 1
        h == box.maxY - box.minY + 1
    IN  Glyph(id, "", box.minX, box.minY, w, h, 0, 0, w + 1)

\* The two for loops, lines 58-125: the scan stops at each pixel, in
\* row-major order, that is ink and not yet visited, and floods from it.
\* st is [visited, rawGlyphs, glyphIdCounter].
RECURSIVE ScanFrom(_, _, _)
ScanFrom(img, ink, st) ==
    LET seeds == ink \ st.visited
    IN  IF seeds = {} THEN st
        ELSE LET pixelIndex == CHOOSE p \in seeds : \A q \in seeds : p <= q
                 blob == Flood(img, ink, pixelIndex)
                 box == BlobBox(img, blob)
                 w == box.maxX - box.minX + 1
                 h == box.maxY - box.minY + 1
             IN  ScanFrom(img, ink,
                    IF w > 0 /\ h > 0
                    THEN [visited |-> st.visited \cup blob,
                          rawGlyphs |-> Append(st.rawGlyphs,
                                               RawGlyph(st.glyphIdCounter, box)),
                          glyphIdCounter |-> st.glyphIdCounter + 1]
                    ELSE [st EXCEPT !.visited = st.visited \cup blob])

\* stage 1 of detectGlyphs: the raw blobs in discovery order
ExtractBlobs(img) ==
    ScanFrom(img, InkPixels(img),
             [visited |-> {}, rawGlyphs |-> <<>>, glyphIdCounter |-> 0]).rawGlyphs

---------------------------------------------------------------------------
(* SpecPixel: isContentPixel applied to sample pixels and backgrounds *)

\* Values of a Uint8ClampedArray cell around the thresholds.
PixelChannels == {0, 12, 16, 20, 21, 255}
Pixels == PixelChannels \X PixelChannels \X PixelChannels \X PixelChannels
Backgrounds == {<<0, 0, 0, 0>>, <<255, 255, 255, 0>>, <<0, 0, 0, 255>>,
                <<0, 0, 0, 1>>, <<255, 255, 255, 255>>}

PixIdle ==
    /\ pixel = <<0, 0, 0, 0>> /\ background = <<0, 0, 0, 0>>
    /\ pixPc = "idle" /\ isContent = FALSE

\* one call of isContentPixel with the default tolerance
Classify ==
    /\ pixPc = "call"
    /\ isContent' = IsContentPixel(pixel, background[1], background[2],
                                   background[3], background[4])
    /\ pixPc' = "returned"
    /\ UNCHANGED <<pixel, background, packVars, detVars, appVars, editVars, expVars>>

---------------------------------------------------------------------------
(* imageProcessor.ts: detectGlyphs, stage 2 (the merge loop) *)

\* rawGlyphs.sort((a, b) => a.y - b.y)
ByY(a, b) == a.y - b.y < 0
SortByY(gs) ==
    StableSort(gs, [i \in DOMAIN gs |-> [j \in DOMAIN gs |-> ByY(gs[i], gs[j])]])

\* ShouldMerge with the upper bound inclusive: distY <= allowedGap
ShouldMerge_Inclusive(g1, g2) ==
    LET overlapX == Min(g1.x + g1.width, g2.x + g2.width) - Max(g1.x, g2.x)
        distY == g2.y - (g1.y + g1.height)
        maxDim == Max(g1.height, g2.height)
    IN  overlapX > 0 /\ distY >= -5 /\ 2 * distY <= Max(10, maxDim)

\* lines 141-166: the test on the ordered pair (g1, g2).  allowedGap is
\* max(5, maxDim * 0.5); distY < allowedGap is 2 * distY < max(10, maxDim).
ShouldMerge(g1, g2) ==
    LET x1 == Max(g1.x, g2.x)
        x2 == Min(g1.x + g1.width, g2.x + g2.width)
        overlapX == x2 - x1
        isHorizAligned == overlapX > 0
        bottom1 == g1.y + g1.height
        top2 == g2.y
        distY == top2 - bottom1
        maxDim == Max(g1.height, g2.height)
    IN  isHorizAligned /\ distY >= -5 /\ 2 * distY < Max(10, maxDim)

\* MergeInto with newX = Math.max(g1.x, g2.x)
MergeInto_MaxX(g1, g2) ==
    LET newX == Max(g1.x, g2.x)
        newY == Min(g1.y, g2.y)
        newMaxX == Max(g1.x + g1.width, g2.x + g2.width)
        newMaxY == Max(g1.y + g1.height, g2.y + g2.height)
    IN  [g1 EXCEPT !.x = newX, !.y = newY,
                   !.width = newMaxX - newX, !.height = newMaxY - newY,
                   !.xadvance = (newMaxX - newX) + 1]

\* MergeInto without `g1.xadvance = g1.width + 1`
MergeInto_StaleAdvance(g1, g2) ==
    LET newX == Min(g1.x, g2.x)
        newY == Min(g1.y, g2.y)
        newMaxX == Max(g1.x + g1.width, g2.x + g2.width)
        newMaxY == Max(g1.y + g1.height, g2.y + g2.height)
    IN  [g1 EXCEPT !.x = newX, !.y = newY,
                   !.width = newMaxX - newX, !.height = newMaxY - newY]

\* lines 168-177: g1 after g2 is merged into it
MergeInto(g1, g2) ==
    LET newX == Min(g1.x, g2.x)
        newY == Min(g1.y, g2.y)
        newMaxX == Max(g1.x + g1.width, g2.x + g2.width)
        newMaxY == Max(g1.y + g1.height, g2.y + g2.height)
    IN  [g1 EXCEPT !.x = newX, !.y = newY,
                   !.width = newMaxX - newX, !.height = newMaxY - newY,
                   !.xadvance = (newMaxX - newX) + 1]

\* Splice removing nothing
Splice_KeepAll(gs, j) == gs

\* rawGlyphs.splice(j, 1)
Splice(gs, j) == [k \in 1..(Len(gs) - 1) |-> IF k < j THEN gs[k] ELSE gs[k + 1]]

\* The first pair (i, j), i # j, in the order of the two for loops, that
\* passes the test; <<>> when a full scan finds none.
FirstPair(gs) ==
    LET n == Len(gs)
        hits == {p \in (1..n) \X (1..n) : p[1] # p[2] /\ ShouldMerge(gs[p[1]], gs[p[2]])}
    IN  IF hits = {} THEN <<>>
        ELSE CHOOSE p \in hits :
                \A q \in hits : p[1] < q[1] \/ (p[1] = q[1] /\ p[2] <= q[2])

\* MergePass without `mergedOccurred = true` after a merge
MergePass_NoFlag(gs) ==
    LET sorted == SortByY(gs)
        p == FirstPair(sorted)
    IN  IF p = <<>>
        THEN [glyphs |-> sorted, mergedOccurred |-> FALSE, pair |-> <<>>]
        ELSE [glyphs |-> Splice([sorted EXCEPT ![p[1]] = MergeInto(sorted[p[1]], sorted[p[2]])],
                                p[2]),
              mergedOccurred |-> FALSE,
              pair |-> <<sorted[p[1]], sorted[p[2]]>>]

\* One iteration of while (mergedOccurred): sort, scan, at most one merge.
MergePass(gs) ==
    LET sorted == SortByY(gs)
        p == FirstPair(sorted)
    IN  IF p = <<>>
        THEN [glyphs |-> sorted, mergedOccurred |-> FALSE, pair |-> <<>>]
        ELSE [glyphs |-> Splice([sorted EXCEPT ![p[1]] = MergeInto(sorted[p[1]], sorted[p[2]])],
                                p[2]),
              mergedOccurred |-> TRUE,
              pair |-> <<sorted[p[1]], sorted[p[2]]>>]

\* The whole loop, lines 129-188: the list it leaves and the merges it made.
RECURSIVE MergeLoop(_, _)
MergeLoop(gs, merges) ==
    LET r == MergePass(gs)
    IN  IF r.mergedOccurred THEN MergeLoop(r.glyphs, merges + 1)
        ELSE [glyphs |-> r.glyphs, merges |-> merges]

---------------------------------------------------------------------------
(* imageProcessor.ts: detectGlyphs, stages 3-5 (the RowOrganizer) *)

\* lines 191-196: Y bucketed to 20 pixels, then X
ReadingOrder(a, b) ==
    IF (IF a.y - b.y >= 0 THEN a.y - b.y ELSE b.y - a.y) > 20
    THEN a.y - b.y < 0
    ELSE a.x - b.x < 0

\* ECMAScript's "consistent comparator", for the comparisons before[i][j]
\* of the elements of a list: "before" is transitive and so is "neither
\* before the other".
Consistent(before) ==
    LET same(a, b) == ~before[a][b] /\ ~before[b][a]
    IN  \A a, b, c \in DOMAIN before :
            /\ (before[a][b] /\ before[b][c]) => before[a][c]
            /\ (same(a, b) /\ same(b, c)) => same(a, c)

\* What rawGlyphs.sort(ReadingOrder) can leave: the stable sort when the
\* comparator is consistent on the list; otherwise the order is
\* implementation-defined, and any ordering of the list may result.
ReadingOrderOutcomes(gs) ==
    LET before == [i \in DOMAIN gs |-> [j \in DOMAIN gs |-> ReadingOrder(gs[i], gs[j])]]
    IN  IF Consistent(before) THEN {StableSort(gs, before)} ELSE Orderings(gs)

\* line 210: |centerG - centerRow| < max(g.height, currentRowH) / 1.5, with
\* both sides multiplied by 6
JoinsRow(g, rowY, rowH) ==
    LET d == (6 * g.y + 3 * g.height) - (6 * rowY + 3 * rowH)
        dist == IF d >= 0 THEN d ELSE -d
    IN  dist < 4 * Max(g.height, rowH)

\* RowMinY taking the y of the row's first member
RowMinY_First(row) == row[1].y

\* Math.min(...row.map(g => g.y))
RowMinY(row) == CHOOSE m \in {row[k].y : k \in DOMAIN row} :
                    \A k \in DOMAIN row : m <= row[k].y

\* ByX with the comparison reversed: b.x - a.x
ByX_Descending(a, b) == b.x - a.x < 0

\* row.sort((a, b) => a.x - b.x)
ByX(a, b) == a.x - b.x < 0

\* lines 227-232 for one row: sort by x, set yoffset
FinishRow(row) ==
    LET rowMinY == RowMinY(row)
        sorted == StableSort(row, [i \in DOMAIN row |-> [j \in DOMAIN row |-> ByX(row[i], row[j])]])
    IN  [k \in 1..Len(sorted) |-> [sorted[k] EXCEPT !.yoffset = sorted[k].y - rowMinY]]

RECURSIVE Flatten(_)
Flatten(rs) == IF rs = <<>> THEN <<>> ELSE Head(rs) \o Flatten(Tail(rs))

---------------------------------------------------------------------------
(* SpecDetect: detectGlyphs applied to bounded images.  getContext('2d') is
   taken to succeed. *)

MaxRects == 3
SheetWidth == 18
SheetHeight == 36

Transparent == <<0, 0, 0, 0>>
White       == <<255, 255, 255, 255>>
Black       == <<0, 0, 0, 255>>
Faint       == <<0, 0, 0, 20>>

\* <<background, paint>>
ColourSchemes == {<<Transparent, Black>>, <<White, Black>>, <<Transparent, Faint>>}

Box(bx, by, bw, bh) == [x |-> bx, y |-> by, w |-> bw, h |-> bh]

\* The rectangles a sheet is painted from, in painting order.
RectCatalogue ==
    << Box(10, 10, 4, 10),   \* 1  a stem
       Box(11, 2, 2, 2),     \* 2  a dot 6 above the stem
       Box(11, 3, 2, 2),     \* 3  a dot 5 above the stem
       Box(12, 4, 2, 2),     \* 4  a dot 4 above the stem
       Box(2, 10, 5, 10),    \* 5  a glyph left of the stem
       Box(0, 0, 3, 3),      \* 6  a block over the top-left pixel
       Box(7, 9, 1, 1),      \* 7  a pixel diagonal to the corner of 5
       Box(3, 30, 4, 5),     \* 8  a glyph of a second text row
       Box(3, 19, 8, 1),     \* 9  a foot joined to the stem
       Box(5, 13, 2, 2),     \* 10 a dot inside the box of stem and foot
       Box(5, 14, 2, 2),     \* 11 the same, one lower
       Box(15, 20, 2, 14),   \* 12 a tall stem
       Box(15, 12, 2, 2),    \* 13 a dot 6 above the tall stem
       Box(12, 22, 2, 2) >>  \* 14 a dot 2 below the stem

\* The rectangles of the catalogue at the indices in `ks`, in index order.
RECURSIVE Painted(_, _, _)
Painted(ks, k, rgba) ==
    IF k > Len(RectCatalogue) THEN <<>>
    ELSE (IF k \in ks
          THEN <<[x |-> RectCatalogue[k].x, y |-> RectCatalogue[k].y,
                  w |-> RectCatalogue[k].w, h |-> RectCatalogue[k].h, rgba |-> rgba]>>
          ELSE <<>>) \o Painted(ks, k + 1, rgba)

\* The 64x64 transparent sheet with one opaque 10x14 rectangle at (5, 5).
ExampleImage ==
    [width |-> 64, height |-> 64, bg |-> Transparent,
     rects |-> <<[x |-> 5, y |-> 5, w |-> 10, h |-> 14, rgba |-> Black]>>]

Images ==
    {ExampleImage} \cup
    {[width |-> SheetWidth, height |-> SheetHeight, bg |-> cs[1],
      rects |-> Painted(ks, 1, cs[2])] :
        ks \in {q \in SUBSET (1..Len(RectCatalogue)) : Cardinality(q) <= MaxRects},
        cs \in ColourSchemes}

NoImage == [width |-> 0, height |-> 0, bg |-> Transparent, rects |-> <<>>]

DetIdle ==
    /\ image = NoImage /\ detPc = "idle" /\ rawGlyphs = <<>>
    /\ mergedOccurred = FALSE /\ lastMerge = <<>> /\ passes = 0 /\ rowI = 0
    /\ currentRow = <<>> /\ currentRowY = 0 /\ currentRowH = 0
    /\ rows = <<>> /\ finalGlyphs = <<>>

\* lines 53-125, and `let mergedOccurred = true`
Scan ==
    /\ detPc = "scan"
    /\ rawGlyphs' = ExtractBlobs(image)
    /\ mergedOccurred' = TRUE
    /\ detPc' = "merge"
    /\ UNCHANGED <<image, lastMerge, passes, rowI, currentRow, currentRowY,
                   currentRowH, rows, finalGlyphs, packVars, appVars, pixVars, expVars, editVars>>

\* one iteration of while (mergedOccurred), lines 130-188
MergeStep ==
    /\ detPc = "merge"
    /\ mergedOccurred
    /\ LET r == MergePass(rawGlyphs)
       IN  /\ rawGlyphs' = r.glyphs
           /\ mergedOccurred' = r.mergedOccurred
           /\ lastMerge' = r.pair
    /\ passes' = passes + 1
    /\ UNCHANGED <<image, detPc, rowI, currentRow, currentRowY, currentRowH,
                   rows, finalGlyphs, packVars, appVars, pixVars, expVars, editVars>>

\* the loop exits; lines 191-203: the reading-order sort, the first row opens
SortGlyphs ==
    /\ detPc = "merge"
    /\ ~mergedOccurred
    /\ \E sorted \in ReadingOrderOutcomes(rawGlyphs) :
          /\ rawGlyphs' = sorted
          /\ IF Len(sorted) > 0
             THEN /\ currentRow' = <<sorted[1]>>
                  /\ currentRowY' = sorted[1].y
                  /\ currentRowH' = sorted[1].height
             ELSE UNCHANGED <<currentRow, currentRowY, currentRowH>>
    /\ rowI' = 2
    /\ lastMerge' = <<>>
    /\ detPc' = "group"
    /\ UNCHANGED <<image, mergedOccurred, passes, rows, finalGlyphs, packVars, appVars, pixVars, expVars, editVars>>

\* one iteration of the row loop, lines 205-220
GroupStep ==
    /\ detPc = "group"
    /\ rowI <= Len(rawGlyphs)
    /\ LET g == rawGlyphs[rowI]
       IN  IF JoinsRow(g, currentRowY, currentRowH)
           THEN /\ currentRow' = Append(currentRow, g)
                /\ currentRowY' = Min(currentRowY, g.y)
                /\ currentRowH' = Max(currentRowH, g.height + (g.y - Min(currentRowY, g.y)))
                /\ rows' = rows
           ELSE /\ rows' = Append(rows, currentRow)
                /\ currentRow' = <<g>>
                /\ currentRowY' = g.y
                /\ currentRowH' = g.height
    /\ rowI' = rowI + 1
    /\ UNCHANGED <<image, detPc, rawGlyphs, mergedOccurred, lastMerge, passes,
                   finalGlyphs, packVars, appVars, pixVars, expVars, editVars>>

\* lines 221-235: the last row closes, each row is sorted and given offsets
FinishRows ==
    /\ detPc = "group"
    /\ rowI > Len(rawGlyphs)
    /\ LET all == IF Len(rawGlyphs) > 0 THEN Append(rows, currentRow) ELSE rows
           done == [k \in 1..Len(all) |-> FinishRow(all[k])]
       IN  /\ rows' = done
           /\ finalGlyphs' = Flatten(done)
    /\ detPc' = "done"
    /\ UNCHANGED <<image, rawGlyphs, mergedOccurred, lastMerge, passes, rowI,
                   currentRow, currentRowY, currentRowH, packVars, appVars, pixVars, expVars, editVars>>

---------------------------------------------------------------------------
(* App.tsx: handleFileUpload and handleIdentifyChars; geminiService.ts:
   identifyGlyphs.  One run of handleIdentifyChars is followed at a time. *)

\* const BATCH_SIZE = 50
BATCH_SIZE == 50

MaxBatches == 3
MaxOps == 3

\* Sheets of n glyphs: one text row of 2x3 blobs, one pixel apart.
DetectedSheet(n) == [k \in 1..n |-> Glyph(k - 1, "", 3 * (k - 1), 0, 2, 3, 0, 0, 3)]
SheetSizes == {0, 1, 2} \cup {k * BATCH_SIZE + 1 : k \in 1..(MaxBatches - 1)}

\* What JSON.parse hands back for a batch of m images: a character for every
\* image, an empty string for every image, or a single character.
Replies(m) == {[k \in 1..m |-> "A"], [k \in 1..m |-> ""], <<"B">>}

NoChars == [idx \in {} |-> ""]

AppInit ==
    /\ imageSrc = "none" /\ glyphs = <<>> /\ toolState = "IDLE"
    /\ upPc = "idle" /\ idPc = "idle" /\ base64Images = 0 /\ batchStart = 0
    /\ allIdentifiedChars = NoChars /\ batchesSent = 0 /\ idOutcome = "none"
    /\ replies = <<>>

\* The editor before anything is selected, repacked or re-detected; the file
\* the user will upload is not modelled by its pixels.
EditIdle ==
    /\ sheet = NoImage /\ canvasImage = NoImage /\ selectedGlyphIds = <<>>
    /\ rpPc = "idle" /\ rpGlyphs = <<>> /\ rpImage = NoImage
    /\ alPc = "idle" /\ alGlyphs = <<>> /\ alImage = NoImage
    /\ sentIds = <<>> /\ ops = 0

\* The budget of user operations where the sheet is modelled by its pixels:
\* the first upload is free, every later operation counts.  Where the sheet
\* is not modelled by its pixels there is no budget.
Budgeted == sheet # NoImage /\ imageSrc # "none"
Spend == /\ Budgeted => ops < MaxOps
         /\ ops' = IF Budgeted THEN ops + 1 ELSE ops

\* The sheets of the editor: EditWidth x EditHeight pixels.
EditWidth == 12
EditHeight == 10

\* The rectangles the small sheets are painted from.
EditCatalogue ==
    << Box(1, 3, 2, 4),     \* 1  a glyph on the left, its top the lowest
       Box(5, 1, 2, 6),     \* 2  a glyph in the middle, its top the highest
       Box(9, 2, 2, 5),     \* 3  a glyph on the right
       Box(5, 8, 2, 1) >>   \* 4  a stroke 1 below the middle glyph

EditSheets ==
    {[width |-> EditWidth, height |-> EditHeight, bg |-> cs[1],
      rects |-> [k \in 1..Len(ks) |->
                    [x |-> EditCatalogue[ks[k]].x, y |-> EditCatalogue[ks[k]].y,
                     w |-> EditCatalogue[ks[k]].w, h |-> EditCatalogue[ks[k]].h,
                     rgba |-> cs[2]]]] :
        <<ks, cs>> \in {<< <<1, 2>>, <<Transparent, Black>> >>,
                        << <<2, 3, 4>>, <<Transparent, Black>> >>,
                        << <<1, 2>>, <<White, Black>> >>,
                        << <<3>>, <<Transparent, Black>> >>}}

\* e.target.files[0], line 36: the first upload reads the file the run starts
\* with, a later one any file of the catalogue
PickableFiles ==
    IF sheet = NoImage \/ imageSrc = "none" THEN {sheet} ELSE EditSheets

\* reader.onload, lines 45-52: the image source is set and decoding starts
FileRead ==
    /\ upPc = "idle"
    /\ Spend
    /\ imageSrc' = "sheet"
    /\ toolState' = "PROCESSING_IMAGE"
    /\ upPc' = "decoding"
    /\ \E file \in PickableFiles : sheet' = file /\ canvasImage' = file
    /\ UNCHANGED <<glyphs, idPc, base64Images, batchStart, allIdentifiedChars,
                   batchesSent, idOutcome, replies, packVars, detVars, pixVars, expVars,
                   selectedGlyphIds, rpVars, alVars, sentIds>>

\* img.onload, lines 53-65
ImageDecoded ==
    /\ upPc = "decoding"
    /\ \E n \in SheetSizes : glyphs' = DetectedSheet(n)
    /\ toolState' = "IDLE"
    /\ upPc' = "idle"
    /\ UNCHANGED <<imageSrc, idPc, base64Images, batchStart, allIdentifiedChars,
                   batchesSent, idOutcome, replies, packVars, detVars, pixVars, expVars, editVars>>

\* lines 70-75: the guard, the tool state, the call of extractGlyphImages
StartIdentify ==
    /\ idPc = "idle"
    /\ toolState # "IDENTIFYING_CHARS"
    /\ imageSrc # "none" /\ Len(glyphs) # 0
    /\ Spend
    /\ toolState' = "IDENTIFYING_CHARS"
    /\ base64Images' = Len(glyphs)
    /\ batchStart' = 0
    /\ allIdentifiedChars' = NoChars
    /\ batchesSent' = 0
    /\ idOutcome' = "none"
    /\ replies' = <<>>
    /\ sentIds' = [k \in 1..Len(glyphs) |-> glyphs[k].id]
    /\ idPc' = IF imageSrc = "broken" THEN "failing" ELSE "extract"
    /\ UNCHANGED <<imageSrc, glyphs, upPc, packVars, detVars, pixVars, expVars,
                   sheet, canvasImage, selectedGlyphIds, rpVars, alVars>>

\* setGlyphs(prev => prev.map(...)), lines 92-97
ApplyChars(prev, chars) ==
    [k \in 1..Len(prev) |->
        IF (k - 1) \in DOMAIN chars /\ chars[k - 1] # ""
        THEN [prev[k] EXCEPT !.char = chars[k - 1]]
        ELSE prev[k]]

\* batchResults.forEach(res => allIdentifiedChars[i + res.index] = res.char)
MergeResults(chars, i, charArray) ==
    [idx \in DOMAIN chars \cup {i + k - 1 : k \in 1..Len(charArray)} |->
        IF idx - i + 1 \in 1..Len(charArray) THEN charArray[idx - i + 1] ELSE chars[idx]]

\* The loop after the results of the batch at i are merged: the next batch is
\* sent, or the loop ends, the characters are applied and finally runs.
AfterBatch(chars, reply) ==
    /\ allIdentifiedChars' = chars
    /\ replies' = Append(replies, [start |-> batchStart, reply |-> reply])
    /\ batchStart' = batchStart + BATCH_SIZE
    /\ IF batchStart + BATCH_SIZE < base64Images
       THEN /\ batchesSent' = batchesSent + 1
            /\ UNCHANGED <<glyphs, toolState, idPc, idOutcome>>
       ELSE /\ glyphs' = ApplyChars(glyphs, chars)
            /\ toolState' = "IDLE"
            /\ idPc' = "idle"
            /\ idOutcome' = "applied"
            /\ UNCHANGED batchesSent
    /\ UNCHANGED <<imageSrc, upPc, base64Images, packVars, detVars, pixVars, expVars, editVars>>

\* extractGlyphImages resolves; the first batch is sent
ImagesExtracted ==
    /\ idPc = "extract"
    /\ idPc' = "batch"
    /\ batchesSent' = 1
    /\ UNCHANGED <<imageSrc, glyphs, toolState, upPc, base64Images, batchStart,
                   allIdentifiedChars, idOutcome, replies, packVars, detVars,
                   pixVars, expVars, editVars>>

\* catch and finally, lines 99-104
IdentifyFails ==
    /\ toolState' = "IDLE"
    /\ idPc' = "idle"
    /\ idOutcome' = "failed"
    /\ UNCHANGED <<imageSrc, glyphs, upPc, base64Images, batchStart,
                   allIdentifiedChars, batchesSent, replies, packVars, detVars,
                   pixVars, expVars, editVars>>

\* extractGlyphImages rejects (img.onerror, or no 2d context)
ExtractRejected ==
    /\ idPc \in {"extract", "failing"}
    /\ IdentifyFails

\* identifyGlyphs returns the parsed array, mapped to {index, char}
BatchIdentified ==
    /\ idPc = "batch"
    /\ \E charArray \in Replies(Min(BATCH_SIZE, base64Images - batchStart)) :
          AfterBatch(MergeResults(allIdentifiedChars, batchStart, charArray),
                     [parsed |-> TRUE, charArray |-> charArray])

\* BatchUnparseable with the parse error propagated to handleIdentifyChars
BatchUnparseable_Throws ==
    /\ idPc = "batch"
    /\ replies' = Append(replies, [start |-> batchStart,
                                   reply |-> [parsed |-> FALSE, charArray |-> <<>>]])
    /\ toolState' = "IDLE"
    /\ idPc' = "idle"
    /\ idOutcome' = "failed"
    /\ UNCHANGED <<imageSrc, glyphs, upPc, base64Images, batchStart,
                   allIdentifiedChars, batchesSent, packVars, detVars,
                   pixVars, expVars, editVars>>

\* JSON.parse throws inside identifyGlyphs: it returns []
BatchUnparseable ==
    /\ idPc = "batch"
    /\ AfterBatch(allIdentifiedChars, [parsed |-> FALSE, charArray |-> <<>>])

\* identifyGlyphs throws (no API key, a failed request): lines 80-83
BatchThrows ==
    /\ idPc = "batch"
    /\ IdentifyFails

---------------------------------------------------------------------------
(* detectGlyphs and packTexture as single calls, for the editor *)

\* lines 198-222: the row loop over the sorted list.  st is [rows,
\* currentRow, currentRowY, currentRowH].
RECURSIVE GroupFrom(_, _, _)
GroupFrom(gs, i, st) ==
    IF i > Len(gs) THEN Append(st.rows, st.currentRow)
    ELSE LET g == gs[i]
         IN  GroupFrom(gs, i + 1,
                IF JoinsRow(g, st.currentRowY, st.currentRowH)
                THEN [rows |-> st.rows,
                      currentRow |-> Append(st.currentRow, g),
                      currentRowY |-> Min(st.currentRowY, g.y),
                      currentRowH |-> Max(st.currentRowH,
                                          g.height + (g.y - Min(st.currentRowY, g.y)))]
                ELSE [rows |-> Append(st.rows, st.currentRow),
                      currentRow |-> <<g>>,
                      currentRowY |-> g.y,
                      currentRowH |-> g.height])

GroupRows(gs) ==
    IF Len(gs) = 0 THEN <<>>
    ELSE GroupFrom(gs, 2, [rows |-> <<>>, currentRow |-> <<gs[1]>>,
                           currentRowY |-> gs[1].y, currentRowH |-> gs[1].height])

\* detectGlyphs(img, canvas): the lists it can return
DetectGlyphs(img) ==
    LET merged == MergeLoop(ExtractBlobs(img), 0).glyphs
    IN  {LET rs == GroupRows(sorted)
         IN  Flatten([k \in 1..Len(rs) |-> FinishRow(rs[k])]) :
            sorted \in ReadingOrderOutcomes(merged)}

\* items.forEach, lines 332-350
RECURSIVE PlaceAll(_, _, _)
PlaceAll(cur, its, tw) ==
    IF its = <<>> THEN cur
    ELSE PlaceAll(PlaceItem(cur, Head(its), tw), Tail(its), tw)

\* packTexture(imageSrc, glyphs) when it resolves: the glyphs, the size and
\* where each item was drawn
PackTexture(gs) ==
    LET its == SortItems([k \in 1..Len(gs) |-> MakeItem(gs[k])])
        tw  == TargetWidth(its)
        cur == PlaceAll([x |-> padding, y |-> padding, currentRowHeight |-> 0,
                         packedItems |-> <<>>], its, tw)
    IN  [glyphs |-> SortById([k \in 1..Len(cur.packedItems) |->
                                 PackedGlyph(cur.packedItems[k])]),
         width  |-> tw,
         height |-> FinalHeight(cur),
         packedItems |-> cur.packedItems]

\* The part of a painted rectangle inside the box of g, moved to (newX, newY).
MovedRect(r, g, newX, newY) ==
    LET x1 == Max(r.x, g.x)
        y1 == Max(r.y, g.y)
        x2 == Min(r.x + r.w, g.x + g.width)
        y2 == Min(r.y + r.h, g.y + g.height)
    IN  [x |-> x1 - g.x + newX, y |-> y1 - g.y + newY,
         w |-> Max(x2 - x1, 0), h |-> Max(y2 - y1, 0), rgba |-> r.rgba]

\* ctx.drawImage(img, g.x, g.y, g.width, g.height, 0, 0, ...) and
\* ctx.drawImage(p.canvas, p.newX, p.newY): the pixels of the glyph's box,
\* background included, land at (newX, newY).
DrawnItem(src, p) ==
    LET g == p.item.originalGlyph
    IN  (IF src.bg[4] = 0 THEN <<>>
         ELSE <<[x |-> p.newX, y |-> p.newY, w |-> g.width, h |-> g.height,
                 rgba |-> src.bg]>>)
        \o [k \in 1..Len(src.rects) |-> MovedRect(src.rects[k], g, p.newX, p.newY)]

\* the result canvas, lines 355-376: cleared to transparent, then every item
AtlasImage(src, result) ==
    [width |-> result.width, height |-> result.height, bg |-> Transparent,
     rects |-> Flatten([k \in 1..Len(result.packedItems) |->
                           DrawnItem(src, result.packedItems[k])])]

---------------------------------------------------------------------------
(* App.tsx, EditorCanvas.tsx, GlyphProperties.tsx: the editor on a sheet of
   pixels.  One upload, one identification, one repack and one re-detection
   are followed at a time. *)

idVars == <<idPc, base64Images, batchStart, allIdentifiedChars, batchesSent,
            idOutcome, replies>>

\* img.onload of handleFileUpload, lines 53-65, on the pixels of the file
SheetDecoded ==
    /\ upPc = "decoding"
    /\ \E detected \in DetectGlyphs(sheet) : glyphs' = detected
    /\ toolState' = "IDLE"
    /\ upPc' = "idle"
    /\ UNCHANGED <<imageSrc, idVars, packVars, detVars, pixVars, expVars, editVars>>

\* [...glyphs].reverse().find(...): the index of the last glyph whose box,
\* edges included, holds the point (x2 / 2, y2 / 2); 0 when there is none
ClickedGlyph(gs, x2, y2) ==
    LET hits == {k \in 1..Len(gs) :
                    /\ x2 >= 2 * gs[k].x /\ x2 <= 2 * (gs[k].x + gs[k].width)
                    /\ y2 >= 2 * gs[k].y /\ y2 <= 2 * (gs[k].y + gs[k].height)}
    IN  IF hits = {} THEN 0 ELSE CHOOSE k \in hits : \A j \in hits : k >= j

\* what a click somewhere on the canvas can hit; coordinates in half pixels
\* The hit changes only where the point crosses an edge of a box: the
\* corners of the canvas, the edges and the half pixels next to them stand
\* for every point of the canvas.
ClickTargets(gs, img) ==
    LET xs == {0, 2 * img.width} \cup
              UNION {{2 * gs[k].x - 1, 2 * gs[k].x, 2 * (gs[k].x + gs[k].width),
                      2 * (gs[k].x + gs[k].width) + 1} : k \in 1..Len(gs)}
        ys == {0, 2 * img.height} \cup
              UNION {{2 * gs[k].y - 1, 2 * gs[k].y, 2 * (gs[k].y + gs[k].height),
                      2 * (gs[k].y + gs[k].height) + 1} : k \in 1..Len(gs)}
    IN  {ClickedGlyph(gs, x2, y2) :
            x2 \in xs \cap (0..(2 * img.width)), y2 \in ys \cap (0..(2 * img.height))}

Includes(ids, id) == \E k \in 1..Len(ids) : ids[k] = id

\* handleCanvasClick, lines 104-134, for a click on the drawn canvas
CanvasClick ==
    /\ imageSrc # "none" /\ canvasImage # NoImage
    /\ ops < MaxOps
    /\ \E k \in ClickTargets(glyphs, canvasImage), shiftKey \in BOOLEAN :
              selectedGlyphIds' =
                 IF shiftKey
                 THEN IF k = 0 THEN selectedGlyphIds
                      ELSE IF Includes(selectedGlyphIds, glyphs[k].id)
                      THEN SelectSeq(selectedGlyphIds, LAMBDA id : id # glyphs[k].id)
                      ELSE Append(selectedGlyphIds, glyphs[k].id)
                 ELSE IF k = 0 THEN <<>> ELSE <<glyphs[k].id>>
    /\ ops' = ops + 1
    /\ UNCHANGED <<appVars, sheet, canvasImage, rpVars, alVars, sentIds,
                   packVars, detVars, pixVars, expVars>>

\* const selectedGlyphs = glyphs.filter(g => selectedGlyphIds.includes(g.id))
SelectedGlyphs == SelectSeq(glyphs, LAMBDA g : Includes(selectedGlyphIds, g.id))

\* handleDeleteGlyphs, lines 158-162; the button is shown when a glyph is selected
DeleteGlyphs ==
    /\ Len(SelectedGlyphs) > 0
    /\ ops < MaxOps
    /\ glyphs' = SelectSeq(glyphs, LAMBDA g : ~Includes(selectedGlyphIds, g.id))
    /\ selectedGlyphIds' = <<>>
    /\ ops' = ops + 1
    /\ UNCHANGED <<imageSrc, toolState, upPc, idVars, sheet, canvasImage, rpVars,
                   alVars, sentIds, packVars, detVars, pixVars, expVars>>

\* the union rectangle and the merged glyph, lines 171-193
MergedGlyph(targetGlyphs) ==
    LET n    == Len(targetGlyphs)
        minX == CHOOSE v \in {targetGlyphs[k].x : k \in 1..n} :
                    \A k \in 1..n : v <= targetGlyphs[k].x
        minY == CHOOSE v \in {targetGlyphs[k].y : k \in 1..n} :
                    \A k \in 1..n : v <= targetGlyphs[k].y
        maxX == CHOOSE v \in {targetGlyphs[k].x + targetGlyphs[k].width : k \in 1..n} :
                    \A k \in 1..n : v >= targetGlyphs[k].x + targetGlyphs[k].width
        maxY == CHOOSE v \in {targetGlyphs[k].y + targetGlyphs[k].height : k \in 1..n} :
                    \A k \in 1..n : v >= targetGlyphs[k].y + targetGlyphs[k].height
        newW == maxX - minX
        newH == maxY - minY
    IN  [targetGlyphs[1] EXCEPT !.x = minX, !.y = minY, !.width = newW,
                                !.height = newH, !.xadvance = newW + 1]

\* MergeGlyphs that leaves the merged glyphs in the list
MergeGlyphs_KeepTargets ==
    /\ Len(SelectedGlyphs) > 1
    /\ Len(selectedGlyphIds) >= 2
    /\ ops < MaxOps
    /\ LET mergedGlyph == MergedGlyph(SelectedGlyphs)
       IN  /\ glyphs' = Append(glyphs, mergedGlyph)
           /\ selectedGlyphIds' = <<mergedGlyph.id>>
    /\ ops' = ops + 1
    /\ UNCHANGED <<imageSrc, toolState, upPc, idVars, sheet, canvasImage, rpVars,
                   alVars, sentIds, packVars, detVars, pixVars, expVars>>

\* handleMergeGlyphs, lines 164-200; the button is shown when more than one
\* glyph is selected
MergeGlyphs ==
    /\ Len(SelectedGlyphs) > 1
    /\ Len(selectedGlyphIds) >= 2
    /\ ops < MaxOps
    /\ LET mergedGlyph == MergedGlyph(SelectedGlyphs)
           remaining == SelectSeq(glyphs, LAMBDA g : ~Includes(selectedGlyphIds, g.id))
       IN  /\ glyphs' = Append(remaining, mergedGlyph)
           /\ selectedGlyphIds' = <<mergedGlyph.id>>
    /\ ops' = ops + 1
    /\ UNCHANGED <<imageSrc, toolState, upPc, idVars, sheet, canvasImage, rpVars,
                   alVars, sentIds, packVars, detVars, pixVars, expVars>>

\* What the properties panel hands to onUpdate for the one selected glyph:
\* { ...glyph, [field]: value }, here a typed character or an x offset.
Updates(glyph) == {[glyph EXCEPT !.char = "A"], [glyph EXCEPT !.xoffset = 1]}

\* handleUpdateGlyph, lines 154-156; the panel shows the fields of a glyph
\* when exactly one glyph is selected
UpdateGlyph ==
    /\ Len(SelectedGlyphs) = 1
    /\ ops < MaxOps
    /\ \E updated \in Updates(SelectedGlyphs[1]) :
          glyphs' = [k \in 1..Len(glyphs) |->
                        IF glyphs[k].id = updated.id THEN updated ELSE glyphs[k]]
    /\ ops' = ops + 1
    /\ UNCHANGED <<imageSrc, toolState, upPc, idVars, sheet, canvasImage,
                   selectedGlyphIds, rpVars, alVars, sentIds, packVars, detVars,
                   pixVars, expVars>>

\* handleRepack up to the await, lines 130-135; the button is disabled while
\* toolState is PROCESSING_IMAGE
StartRepack ==
    /\ rpPc = "idle"
    /\ toolState # "PROCESSING_IMAGE"
    /\ imageSrc # "none" /\ Len(glyphs) # 0
    /\ ops < MaxOps
    /\ toolState' = "PROCESSING_IMAGE"
    /\ rpGlyphs' = glyphs
    /\ rpImage' = canvasImage
    /\ rpPc' = IF imageSrc = "broken" THEN "failing" ELSE "packing"
    /\ ops' = ops + 1
    /\ UNCHANGED <<imageSrc, glyphs, upPc, idVars, sheet, canvasImage,
                   selectedGlyphIds, alVars, sentIds, packVars, detVars, pixVars, expVars>>

\* packTexture resolves: lines 137-145 and finally
RepackResolved ==
    /\ rpPc = "packing"
    /\ LET result == PackTexture(rpGlyphs)
       IN  /\ canvasImage' = AtlasImage(rpImage, result)
           /\ glyphs' = result.glyphs
    /\ imageSrc' = "atlas"
    /\ toolState' = "IDLE"
    /\ rpPc' = "idle" /\ rpGlyphs' = <<>> /\ rpImage' = NoImage
    /\ UNCHANGED <<upPc, idVars, sheet, selectedGlyphIds, alVars,
                   sentIds, ops, packVars, detVars, pixVars, expVars>>

\* packTexture rejects: catch and finally, lines 146-151
RepackRejected ==
    /\ rpPc \in {"packing", "failing"}
    /\ toolState' = "IDLE"
    /\ rpPc' = "idle" /\ rpGlyphs' = <<>> /\ rpImage' = NoImage
    /\ UNCHANGED <<imageSrc, glyphs, upPc, idVars, sheet, canvasImage,
                   selectedGlyphIds, alVars, sentIds, ops,
                   packVars, detVars, pixVars, expVars>>

\* handleAlignBaseline up to img.onload, lines 107-110
AlignStart ==
    /\ alPc = "idle"
    /\ imageSrc # "none"
    /\ ops < MaxOps
    /\ alGlyphs' = glyphs
    /\ alImage' = canvasImage
    /\ alPc' = IF imageSrc = "broken" THEN "failing" ELSE "loading"
    /\ ops' = ops + 1
    /\ UNCHANGED <<appVars, sheet, canvasImage, selectedGlyphIds, rpVars, sentIds,
                   packVars, detVars, pixVars, expVars>>

\* its img.onload, lines 111-127
AlignApplied ==
    /\ alPc = "loading"
    /\ \E detected \in DetectGlyphs(alImage) :
          glyphs' = IF Len(detected) = Len(alGlyphs)
                    THEN [i \in 1..Len(detected) |->
                             [detected[i] EXCEPT !.char = alGlyphs[i].char,
                                                 !.id = alGlyphs[i].id]]
                    ELSE detected
    /\ alPc' = "idle" /\ alGlyphs' = <<>> /\ alImage' = NoImage
    /\ UNCHANGED <<imageSrc, toolState, upPc, idVars, sheet, canvasImage,
                   selectedGlyphIds, rpVars, sentIds, ops,
                   packVars, detVars, pixVars, expVars>>

---------------------------------------------------------------------------
(* fntGenerator.ts: generateFnt.  A string is the sequence of its characters. *)

Digits == <<"0", "1", "2", "3", "4", "5", "6", "7", "8", "9">>

\* `${n}` for an integer n
RECURSIVE NatText(_)
NatText(n) == IF n < 10 THEN <<Digits[n + 1]>>
              ELSE NatText(n \div 10) \o <<Digits[(n % 10) + 1]>>
NumText(n) == IF n < 0 THEN <<"-">> \o NatText(-n) ELSE NatText(n)

\* g.char.charCodeAt(0) for the characters used here
CharCodeAt0(char) == CASE char = "A" -> 65 [] char = "B" -> 66 [] char = "i" -> 105

\* fontSettings after the upload of a 512 x 512 sheet "F.png" whose first
\* glyph is 30 pixels high (App.tsx lines 19-29 and 57-62), and the image
\* name handleExportFnt derives from it (lines 213-215)
UploadedSettings ==
    [face |-> <<"F">>, size |-> 32, bold |-> FALSE, italic |-> FALSE,
     lineHeight |-> 32, base |-> 24, scaleW |-> 512, scaleH |-> 512, tracking |-> 0]
ExportImageName == <<"F", ".", "p", "n", "g">>

InfoLine(settings) ==
    <<"i", "n", "f", "o", " ", "f", "a", "c", "e", "=", "\"">>
    \o settings.face \o
    <<"\"", " ", "s", "i", "z", "e", "=">>
    \o NumText(settings.size) \o
    <<" ", "b", "o", "l", "d", "=">>
    \o NumText(IF settings.bold THEN 1 ELSE 0) \o
    <<" ", "i", "t", "a", "l", "i", "c", "=">>
    \o NumText(IF settings.italic THEN 1 ELSE 0) \o
    <<" ", "c", "h", "a", "r", "s", "e", "t", "=", "\"", "\"", " ", "u",
      "n", "i", "c", "o", "d", "e", "=", "1", " ", "s", "t", "r", "e",
      "t", "c", "h", "H", "=", "1", "0", "0", " ", "s", "m", "o", "o",
      "t", "h", "=", "1", " ", "a", "a", "=", "1", " ", "p", "a", "d",
      "d", "i", "n", "g", "=", "0", ",", "0", ",", "0", ",", "0", " ",
      "s", "p", "a", "c", "i", "n", "g", "=", "1", ",", "1", " ", "o",
      "u", "t", "l", "i", "n", "e", "=", "0">>

CommonLine(settings) ==
    <<"c", "o", "m", "m", "o", "n", " ", "l", "i", "n", "e", "H", "e",
      "i", "g", "h", "t", "=">>
    \o NumText(settings.lineHeight) \o
    <<" ", "b", "a", "s", "e", "=">>
    \o NumText(settings.base) \o
    <<" ", "s", "c", "a", "l", "e", "W", "=">>
    \o NumText(settings.scaleW) \o
    <<" ", "s", "c", "a", "l", "e", "H", "=">>
    \o NumText(settings.scaleH) \o
    <<" ", "p", "a", "g", "e", "s", "=", "1", " ", "p", "a", "c", "k",
      "e", "d", "=", "0", " ", "a", "l", "p", "h", "a", "C", "h", "n",
      "l", "=", "1", " ", "r", "e", "d", "C", "h", "n", "l", "=", "0",
      " ", "g", "r", "e", "e", "n", "C", "h", "n", "l", "=", "0", " ",
      "b", "l", "u", "e", "C", "h", "n", "l", "=", "0">>

PageLine(imageFileName) ==
    <<"p", "a", "g", "e", " ", "i", "d", "=", "0", " ", "f", "i", "l",
      "e", "=", "\"">>
    \o imageFileName \o <<"\"">>

CharsLine(gs) ==
    <<"c", "h", "a", "r", "s", " ", "c", "o", "u", "n", "t", "=">>
    \o NumText(Len(gs))

\* the body of glyphs.forEach, lines 110-121
CharLine(g, globalTracking) ==
    LET charId == IF g.char # "" THEN CharCodeAt0(g.char) ELSE -1
        finalXAdvance == g.xadvance + globalTracking
    IN  <<"c", "h", "a", "r", " ", "i", "d", "=">> \o NumText(charId)
        \o <<" ", "x", "=">> \o NumText(g.x)
        \o <<" ", "y", "=">> \o NumText(g.y)
        \o <<" ", "w", "i", "d", "t", "h", "=">>
        \o NumText(g.width) \o
        <<" ", "h", "e", "i", "g", "h", "t", "=">>
        \o NumText(g.height) \o
        <<" ", "x", "o", "f", "f", "s", "e", "t", "=">>
        \o NumText(g.xoffset) \o
        <<" ", "y", "o", "f", "f", "s", "e", "t", "=">>
        \o NumText(g.yoffset) \o
        <<" ", "x", "a", "d", "v", "a", "n", "c", "e", "=">>
        \o NumText(finalXAdvance) \o
        <<" ", "p", "a", "g", "e", "=", "0", " ", "c", "h", "n", "l", "=",
      "1", "5">>

\* lines.join('\n')
RECURSIVE JoinLines(_)
JoinLines(lines) ==
    IF Len(lines) = 0 THEN <<>>
    ELSE IF Len(lines) = 1 THEN lines[1]
    ELSE lines[1] \o <<"\n">> \o JoinLines(Tail(lines))

GenerateFnt(gs, settings, imageFileName) ==
    LET globalTracking == settings.tracking
    IN  JoinLines(<<InfoLine(settings), CommonLine(settings), PageLine(imageFileName),
                    CharsLine(gs)>>
                  \o [k \in 1..Len(gs) |-> CharLine(gs[k], globalTracking)])

---------------------------------------------------------------------------
(* Reading a .fnt text back: lines, "key=value" fields, decimal integers *)

LineStarts(text) == {1} \cup {i + 1 : i \in {j \in 1..Len(text) : text[j] = "\n"}}

LineEnd(text, start) ==
    LET stops == {j \in start..Len(text) : text[j] = "\n"}
    IN  IF stops = {} THEN Len(text)
        ELSE (CHOOSE j \in stops : \A j2 \in stops : j <= j2) - 1

SplitLines(text) ==
    LET starts == LineStarts(text)
        nth(k) == CHOOSE a \in starts : Cardinality({b \in starts : b < a}) = k - 1
    IN  [k \in 1..Cardinality(starts) |-> SubSeq(text, nth(k), LineEnd(text, nth(k)))]

StartsWith(line, prefix) ==
    Len(line) >= Len(prefix) /\ SubSeq(line, 1, Len(prefix)) = prefix

LinesWith(text, prefix) == SelectSeq(SplitLines(text), LAMBDA l : StartsWith(l, prefix))

DigitValue(d) == (CHOOSE k \in 1..10 : Digits[k] = d) - 1

RECURSIVE ParseNat(_)
ParseNat(ds) ==
    IF Len(ds) = 0 THEN 0
    ELSE 10 * ParseNat(SubSeq(ds, 1, Len(ds) - 1)) + DigitValue(ds[Len(ds)])
ParseInt(ds) == IF Len(ds) > 0 /\ ds[1] = "-" THEN 0 - ParseNat(Tail(ds)) ELSE ParseNat(ds)

\* the integer after " key=" in a line, up to the next space
Field(line, key) ==
    LET pat   == <<" ">> \o key \o <<"=">>
        hits  == {i \in 1..(Len(line) - Len(pat) + 1) :
                     SubSeq(line, i, i + Len(pat) - 1) = pat}
        at    == CHOOSE i \in hits : \A i2 \in hits : i <= i2
        from  == at + Len(pat)
        stops == {j \in from..Len(line) : line[j] = " "}
        to    == IF stops = {} THEN Len(line)
                 ELSE (CHOOSE j \in stops : \A j2 \in stops : j <= j2) - 1
    IN  ParseInt(SubSeq(line, from, to))

ParsedChar(line) ==
    [id       |-> Field(line, <<"i", "d">>),
     x        |-> Field(line, <<"x">>),
     y        |-> Field(line, <<"y">>),
     width    |-> Field(line, <<"w", "i", "d", "t", "h">>),
     height   |-> Field(line, <<"h", "e", "i", "g", "h", "t">>),
     xoffset  |-> Field(line, <<"x", "o", "f", "f", "s", "e", "t">>),
     yoffset  |-> Field(line, <<"y", "o", "f", "f", "s", "e", "t">>),
     xadvance |-> Field(line, <<"x", "a", "d", "v", "a", "n", "c", "e">>)]

ParsedChars(text) ==
    LET ls == LinesWith(text, <<"c", "h", "a", "r", " ">>)
    IN  [k \in 1..Len(ls) |-> ParsedChar(ls[k])]

ParsedCount(text) ==
    Field(LinesWith(text, <<"c", "h", "a", "r", "s", " ">>)[1], <<"c", "o", "u", "n", "t">>)

\* what a glyph is expected to read back as
OwnFields(g) ==
    [id       |-> IF g.char # "" THEN CharCodeAt0(g.char) ELSE -1,
     x        |-> g.x, y |-> g.y, width |-> g.width, height |-> g.height,
     xoffset  |-> g.xoffset, yoffset |-> g.yoffset, xadvance |-> g.xadvance]

---------------------------------------------------------------------------
(* SpecExport: generateFnt applied to bounded glyph lists and trackings *)

MaxExportGlyphs == 2

\* Glyphs as detected, or labelled and adjusted by the user.
ExportGlyphs ==
    {Glyph(0, c, gx, 7, 12, 30, xo, 3, xa) :
        c \in {"", "A"}, gx \in {0, 140}, xo \in {0, -1}, xa \in {4, 13}}

ExportInputs ==
    UNION {[1..n -> ExportGlyphs] : n \in 0..MaxExportGlyphs}

Trackings == {0, 2, -1}

ExportIdle ==
    /\ fntGlyphs = <<>> /\ fntTracking = 0 /\ fntPc = "idle" /\ fntText = <<>>

\* one call of generateFnt
Export ==
    /\ fntPc = "call"
    /\ fntText' = GenerateFnt(fntGlyphs, [UploadedSettings EXCEPT !.tracking = fntTracking],
                              ExportImageName)
    /\ fntPc' = "written"
    /\ UNCHANGED <<fntGlyphs, fntTracking, packVars, detVars, appVars, pixVars, editVars>>

---------------------------------------------------------------------------
(* The specifications *)

InitPack ==
    /\ packInput \in PackInputs
    /\ packPc = "load"
    /\ items = <<>> /\ targetWidth = 0 /\ packX = 0 /\ packY = 0
    /\ currentRowHeight = 0 /\ packedItems = <<>> /\ packResult = NoResult
    /\ DetIdle
    /\ AppInit
    /\ PixIdle
    /\ EditIdle
    /\ ExportIdle

NextPack == PackLoad \/ PackLoadError \/ PackPlace \/ PackDraw \/ PackNoContext

SpecPack == InitPack /\ [][NextPack]_vars

InitDetect ==
    /\ image \in Images
    /\ detPc = "scan"
    /\ rawGlyphs = <<>> /\ mergedOccurred = FALSE /\ lastMerge = <<>>
    /\ passes = 0 /\ rowI = 0 /\ currentRow = <<>> /\ currentRowY = 0
    /\ currentRowH = 0 /\ rows = <<>> /\ finalGlyphs = <<>>
    /\ PackIdle
    /\ AppInit
    /\ PixIdle
    /\ EditIdle
    /\ ExportIdle

NextDetect == Scan \/ MergeStep \/ SortGlyphs \/ GroupStep \/ FinishRows

SpecDetect == InitDetect /\ [][NextDetect]_vars

InitApp == AppInit /\ PackIdle /\ DetIdle /\ PixIdle /\ EditIdle /\ ExportIdle

NextApp ==
    \/ FileRead \/ ImageDecoded
    \/ StartIdentify \/ ImagesExtracted \/ ExtractRejected
    \/ BatchIdentified \/ BatchUnparseable \/ BatchThrows

SpecApp == InitApp /\ [][NextApp]_vars

InitPixel ==
    /\ pixel \in Pixels
    /\ background \in Backgrounds
    /\ pixPc = "call"
    /\ isContent = FALSE
    /\ PackIdle /\ DetIdle /\ AppInit /\ EditIdle /\ ExportIdle

NextPixel == Classify

SpecPixel == InitPixel /\ [][NextPixel]_vars

InitEdit ==
    /\ sheet \in EditSheets
    /\ canvasImage = NoImage /\ selectedGlyphIds = <<>>
    /\ rpPc = "idle" /\ rpGlyphs = <<>> /\ rpImage = NoImage
    /\ alPc = "idle" /\ alGlyphs = <<>> /\ alImage = NoImage
    /\ sentIds = <<>> /\ ops = 0
    /\ AppInit /\ PackIdle /\ DetIdle /\ PixIdle /\ ExportIdle

NextEdit ==
    \/ FileRead \/ SheetDecoded
    \/ StartIdentify \/ ImagesExtracted \/ ExtractRejected
    \/ BatchIdentified \/ BatchUnparseable \/ BatchThrows
    \/ CanvasClick \/ UpdateGlyph \/ DeleteGlyphs \/ MergeGlyphs
    \/ StartRepack \/ RepackResolved \/ RepackRejected
    \/ AlignStart \/ AlignApplied

SpecEdit == InitEdit /\ [][NextEdit]_vars

\* reader.onload, lines 45-52, for a file that is no image: readAsDataURL
\* reads any file, the source and the tool state are set, and the Image
\* starts on data it cannot decode.  The canvas keeps the image it has
\* (EditorCanvas.tsx, lines 22-34: imgObj changes in img.onload only).
BrokenFileRead ==
    /\ upPc = "idle"
    /\ Spend
    /\ imageSrc' = "broken"
    /\ toolState' = "PROCESSING_IMAGE"
    /\ upPc' = "failing"
    /\ UNCHANGED <<glyphs, idVars, packVars, detVars, pixVars, expVars,
                   sheet, canvasImage, selectedGlyphIds, rpVars, alVars, sentIds>>

\* The error event of that Image: handleFileUpload sets no img.onerror, so
\* nothing of the state changes.
DecodeError ==
    /\ upPc = "failing"
    /\ upPc' = "idle"
    /\ UNCHANGED <<imageSrc, glyphs, toolState, idVars, packVars, detVars, pixVars,
                   expVars, editVars>>

\* The error event of the Image of handleAlignBaseline, lines 109-111: no
\* img.onerror either.
AlignError ==
    /\ alPc = "failing"
    /\ alPc' = "idle" /\ alGlyphs' = <<>> /\ alImage' = NoImage
    /\ UNCHANGED <<appVars, sheet, canvasImage, selectedGlyphIds, rpVars, sentIds,
                   ops, packVars, detVars, pixVars, expVars>>

\* The editor where an uploaded file may be no image.
NextLive ==
    \/ FileRead \/ SheetDecoded \/ BrokenFileRead \/ DecodeError
    \/ StartIdentify \/ ImagesExtracted \/ ExtractRejected
    \/ BatchIdentified \/ BatchUnparseable \/ BatchThrows
    \/ CanvasClick \/ UpdateGlyph \/ DeleteGlyphs \/ MergeGlyphs
    \/ StartRepack \/ RepackResolved \/ RepackRejected
    \/ AlignStart \/ AlignApplied \/ AlignError

\* The steps that end a pending decode, a pending packTexture and a pending
\* load of handleAlignBaseline, told by the position they leave: under
\* NextLive these are the steps SheetDecoded, RepackResolved or RepackRejected,
\* and AlignApplied, each of which is possible whenever its position is held.
LoadSettled == upPc = "decoding" /\ upPc' = "idle"

PackSettled == rpPc # "idle" /\ rpPc' = "idle"

RealignLoaded == alPc = "loading" /\ alPc' = "idle"

\* The browser delivers every pending load, error, resolution and rejection;
\* nothing obliges the user to click.
Delivery ==
    /\ WF_upPc(LoadSettled) /\ WF_vars(DecodeError)
    /\ WF_vars(ImagesExtracted \/ ExtractRejected)
    /\ WF_vars(BatchIdentified \/ BatchUnparseable \/ BatchThrows)
    /\ WF_rpPc(PackSettled)
    /\ WF_alPc(RealignLoaded) /\ WF_vars(AlignError)

SpecLive == InitEdit /\ [][NextLive]_vars /\ Delivery

InitExport ==
    /\ fntGlyphs \in ExportInputs
    /\ fntTracking \in Trackings
    /\ fntPc = "call"
    /\ fntText = <<>>
    /\ PackIdle /\ DetIdle /\ AppInit /\ PixIdle /\ EditIdle

NextExport == Export

SpecExport == InitExport /\ [][NextExport]_vars

---------------------------------------------------------------------------
(* Properties of packTexture, checked under SpecPack *)

PackOut == packResult.glyphs

Overlap(a, b) ==
    /\ a.x < b.x + b.width /\ b.x < a.x + a.width
    /\ a.y < b.y + b.height /\ b.y < a.y + a.height

\* C1: no two rectangles of the glyphs packTexture returns intersect in a
\* region of positive area, whatever the widths and heights (>= 1) of the
\* input, glyphs wider than the atlas included.
C1_NoOverlap ==
    packPc = "resolved" =>
        \A i, j \in DOMAIN PackOut : i # j => ~Overlap(PackOut[i], PackOut[j])

\* Three glyphs on two shelves, one of them wider than the atlas.
C1_Witness ==
    /\ packPc = "resolved"
    /\ Len(PackOut) = 3
    /\ \E i \in DOMAIN PackOut : PackOut[i].width + 2 * padding > packResult.width
    /\ \E i, j \in DOMAIN PackOut : i # j /\ PackOut[i].y = PackOut[j].y
    /\ \E i, j \in DOMAIN PackOut : PackOut[i].y # PackOut[j].y

\* C2: every glyph packTexture returns lies inside the returned atlas:
\* 0 <= x, 0 <= y, x + width <= atlas width, y + height <= atlas height.
C2_InsideAtlas ==
    packPc = "resolved" =>
        \A i \in DOMAIN PackOut :
            /\ 0 <= PackOut[i].x /\ 0 <= PackOut[i].y
            /\ PackOut[i].x + PackOut[i].width <= packResult.width
            /\ PackOut[i].y + PackOut[i].height <= packResult.height

SameButPosition(a, b) ==
    /\ a.id = b.id /\ a.char = b.char /\ a.width = b.width /\ a.height = b.height
    /\ a.xoffset = b.xoffset /\ a.yoffset = b.yoffset /\ a.xadvance = b.xadvance

\* C4: packTexture relocates and never resizes or relabels: the output holds
\* exactly one glyph for each input glyph, with the same id, and with char,
\* width, height, xoffset, yoffset and xadvance equal to the input glyph's.
C4_RelocatesOnly ==
    packPc = "resolved" =>
        /\ Len(PackOut) = Len(packInput)
        /\ \A i \in DOMAIN packInput :
              /\ Cardinality({j \in DOMAIN PackOut : PackOut[j].id = packInput[i].id}) = 1
              /\ \A j \in DOMAIN PackOut :
                    PackOut[j].id = packInput[i].id => SameButPosition(PackOut[j], packInput[i])

\* A labelled, adjusted glyph that the packer moved, among several.
C4_Witness ==
    /\ packPc = "resolved"
    /\ Len(PackOut) >= 2
    /\ \E i \in DOMAIN packInput, j \in DOMAIN PackOut :
          /\ PackOut[j].id = packInput[i].id
          /\ packInput[i].char = "A"
          /\ packInput[i].xadvance # packInput[i].width + 1
          /\ <<PackOut[j].x, PackOut[j].y>> # <<packInput[i].x, packInput[i].y>>

InputArea ==
    LET RECURSIVE Sum(_)
        Sum(k) == IF k = 0 THEN 0
                  ELSE packInput[k].width * packInput[k].height + Sum(k - 1)
    IN  Sum(Len(packInput))

IsPowerOfTwo(n) == \E k \in 0..30 : n = 2 ^ k

\* C5: the atlas width W is the smallest power of two >= 128 with
\* W >= ceil(sqrt(1.1 * totalArea)): W is a power of two, W >= 128,
\* 10 * W * W >= 11 * totalArea, and if W > 128, 10 * (W/2)^2 < 11 * totalArea.
C5_AtlasWidth ==
    packPc = "resolved" =>
        LET W == packResult.width
        IN  /\ IsPowerOfTwo(W)
            /\ W >= 128
            /\ 10 * W * W >= 11 * InputArea
            /\ W > 128 => 10 * (W \div 2) * (W \div 2) < 11 * InputArea

\* An input whose area forces the width past the floor of 128.
C5_Witness == packPc = "resolved" /\ packResult.width > 128

\* C13: the glyph list packTexture returns is sorted by id, ascending.
C13_SortedById ==
    packPc = "resolved" =>
        \A i, j \in DOMAIN PackOut : i < j => PackOut[i].id <= PackOut[j].id

\* Three glyphs handed over in descending id order and packed in yet another
\* order (the tallest first).
C13_Witness ==
    /\ packPc = "resolved"
    /\ Len(packInput) = 3
    /\ \A k \in 1..2 : packInput[k].id > packInput[k + 1].id
    /\ packedItems[1].item.id # PackOut[1].id
    /\ [k \in 1..3 |-> items[k].id] # [k \in 1..3 |-> packInput[k].id]

\* C17: the atlas packTexture returns is square: its height equals its
\* (power-of-two) width, for every input glyph list.
C17_SquareAtlas ==
    packPc = "resolved" => packResult.height = packResult.width

---------------------------------------------------------------------------
(* Properties of detectGlyphs, checked under SpecDetect *)

\* The merge loop has exited: a full pass made no merge.
MergeDone == detPc = "merge" /\ ~mergedOccurred

\* C6: merge idempotence: the merge loop run on a glyph list that is its own
\* output makes no merge and returns the same glyphs, with the same boxes, in
\* the same order.
C6_MergeIdempotent ==
    MergeDone => MergeLoop(rawGlyphs, 0) = [glyphs |-> rawGlyphs, merges |-> 0]

\* The output of a loop that merged twice before the pass that ended it.
C6_Witness == MergeDone /\ passes >= 3 /\ Len(rawGlyphs) >= 1

BoxContains(outer, inner) ==
    /\ outer.x <= inner.x /\ outer.y <= inner.y
    /\ inner.x + inner.width <= outer.x + outer.width
    /\ inner.y + inner.height <= outer.y + outer.height

Area(g) == g.width * g.height

WithId(gs, id) == {gs[k] : k \in {i \in DOMAIN gs : gs[i].id = id}}

\* C7: merge monotonicity: at every merge the survivor's new box contains both
\* input boxes and its area is at least the larger input area; and no glyph's
\* box shrinks at any pass of the merge loop.
C7_MergeMonotone ==
    [][(detPc = "merge" /\ detPc' = "merge") =>
          /\ lastMerge' # <<>> =>
                \A s \in WithId(rawGlyphs', lastMerge'[1].id) :
                    /\ BoxContains(s, lastMerge'[1])
                    /\ BoxContains(s, lastMerge'[2])
                    /\ Area(s) >= Max(Area(lastMerge'[1]), Area(lastMerge'[2]))
          /\ lastMerge' # <<>> => WithId(rawGlyphs', lastMerge'[1].id) # {}
          /\ \A k \in DOMAIN rawGlyphs' :
                \E g \in WithId(rawGlyphs, rawGlyphs'[k].id) :
                    BoxContains(rawGlyphs'[k], g)]_vars

\* A merge that made the survivor strictly larger than both inputs.
C7_Witness ==
    /\ detPc = "merge"
    /\ lastMerge # <<>>
    /\ \E s \in WithId(rawGlyphs, lastMerge[1].id) :
          Area(s) > Max(Area(lastMerge[1]), Area(lastMerge[2]))

\* The rule as the claim words it: positive overlap of the horizontal
\* intervals, and -5 <= top(g2) - bottom(g1) < max(5, max(h1, h2) / 2).
ClaimedRule(g1, g2) ==
    LET left == IF g1.x >= g2.x THEN g1.x ELSE g2.x
        right == IF g1.x + g1.width <= g2.x + g2.width
                 THEN g1.x + g1.width ELSE g2.x + g2.width
        gap == g2.y - (g1.y + g1.height)
        tallest == IF g1.height >= g2.height THEN g1.height ELSE g2.height
    IN  /\ right - left > 0
        /\ -5 <= gap
        /\ gap < 5 \/ 2 * gap < tallest

StemAndDot ==
    [width |-> SheetWidth, height |-> SheetHeight, bg |-> Transparent,
     rects |-> Painted({1, 2}, 1, Black)]

Boxes(gs) == {<<gs[k].x, gs[k].y, gs[k].width, gs[k].height>> : k \in DOMAIN gs}

\* C8: a pass of the merge loop merges exactly when some ordered pair of
\* distinct glyphs passes the rule (overlap > 0 and -5 <= distY < allowedGap,
\* lower bound inclusive, upper bound exclusive), the pair it merges passes
\* the rule, and the stem (10,10,4,10) and the dot (11,2,2,2) are still two
\* glyphs when the loop has finished.
C8_MergeRule ==
    [][/\ (detPc = "merge" /\ detPc' = "merge") =>
            /\ mergedOccurred' <=>
                  \E i, j \in DOMAIN rawGlyphs :
                      i # j /\ ClaimedRule(rawGlyphs[i], rawGlyphs[j])
            /\ lastMerge' # <<>> => ClaimedRule(lastMerge'[1], lastMerge'[2])
            /\ lastMerge' # <<>> <=> Len(rawGlyphs') = Len(rawGlyphs) - 1
            /\ lastMerge' = <<>> => Len(rawGlyphs') = Len(rawGlyphs)
       /\ (image' = StemAndDot /\ MergeDone') =>
            /\ Len(rawGlyphs') = 2
            /\ Boxes(rawGlyphs') = {<<10, 10, 4, 10>>, <<11, 2, 2, 2>>}]_vars

\* The stem and the dot after the loop: two glyphs, although their
\* horizontal intervals overlap.
C8_Witness ==
    /\ image = StemAndDot /\ MergeDone /\ passes = 1
    /\ Len(rawGlyphs) = 2

\* C9: row offset invariant: in the output of detectGlyphs every member of
\* every row has yoffset >= 0, at least one member of each row has
\* yoffset = 0, and yoffset is the glyph's y minus the least y of its row.
C9_RowOffsets ==
    detPc = "done" =>
        /\ \A r \in DOMAIN rows :
              /\ Len(rows[r]) >= 1
              /\ \A k \in DOMAIN rows[r] : rows[r][k].yoffset >= 0
              /\ \E k \in DOMAIN rows[r] : rows[r][k].yoffset = 0
              /\ \A k \in DOMAIN rows[r] :
                    \A m \in DOMAIN rows[r] :
                        rows[r][k].yoffset >= rows[r][k].y - rows[r][m].y
        /\ finalGlyphs = Flatten(rows)

\* Two rows, one of them with a member below the row's top.
C9_Witness ==
    /\ detPc = "done"
    /\ Len(rows) >= 2
    /\ \E r \in DOMAIN rows :
          /\ Len(rows[r]) >= 2
          /\ rows[r][1].yoffset > 0

\* The pixels inside the painted rectangles of an image.
RectPixels(img) ==
    {p \in 0..(img.width * img.height - 1) :
        \E k \in DOMAIN img.rects :
            LET r == img.rects[k]
                px == p % img.width
                py == p \div img.width
            IN  r.x <= px /\ px < r.x + r.w /\ r.y <= py /\ py < r.y + r.h}

\* Two rectangles are apart by more than allowedGap: the gap between them
\* along some axis exceeds max(5, max(h1, h2) / 2).
Apart(r1, r2) ==
    LET gapX == Max(r1.x - (r2.x + r2.w), r2.x - (r1.x + r1.w))
        gapY == Max(r1.y - (r2.y + r2.h), r2.y - (r1.y + r1.h))
        gap == Max(gapX, gapY)
    IN  gap > 5 /\ 2 * gap > Max(r1.h, r2.h)

\* The ink of the image is exactly k filled rectangles, pairwise apart.
SeparateBlocks(img) ==
    /\ \A i, j \in DOMAIN img.rects : i # j => Apart(img.rects[i], img.rects[j])
    /\ InkPixels(img) = RectPixels(img)

\* C10: for an image whose ink is k pairwise pixel-disjoint filled rectangles,
\* each pair apart by more than allowedGap, detectGlyphs returns exactly k
\* glyphs whose boxes are the rectangles; the 64x64 sheet with one 10x14
\* rectangle at (5,5) gives the one glyph (5,5,10,14).
C10_SeparateBlocks ==
    /\ (detPc = "done" /\ SeparateBlocks(image)) =>
          /\ Len(finalGlyphs) = Len(image.rects)
          /\ Boxes(finalGlyphs) =
                {<<image.rects[k].x, image.rects[k].y, image.rects[k].w, image.rects[k].h>> :
                    k \in DOMAIN image.rects}
    /\ (detPc = "done" /\ image = ExampleImage) =>
          /\ Len(finalGlyphs) = 1
          /\ Boxes(finalGlyphs) = {<<5, 5, 10, 14>>}

\* Three blocks, pairwise apart, detected as three glyphs.
C10_Witness ==
    /\ detPc = "done"
    /\ Len(image.rects) = 3
    /\ SeparateBlocks(image)
    /\ Len(finalGlyphs) = 3

---------------------------------------------------------------------------
(* Properties of isContentPixel, checked under SpecPixel *)

SquaredDistance ==
    (pixel[1] - background[1]) ^ 2 + (pixel[2] - background[2]) ^ 2
        + (pixel[3] - background[3]) ^ 2

\* C12: with tolerance 20, when the background alpha is 0 a pixel is ink iff
\* its alpha > 20, whatever its RGB; when the background alpha is not 0 a
\* pixel is ink iff its squared RGB distance to the background is > 400,
\* whatever its alpha; both comparisons are strict.
C12_InkRule ==
    pixPc = "returned" =>
        /\ background[4] = 0 => (isContent <=> pixel[4] > 20)
        /\ background[4] # 0 => (isContent <=> SquaredDistance > 400)

\* A pixel at RGB distance exactly 20 from an opaque background: not ink.
C12_Witness ==
    /\ pixPc = "returned"
    /\ background[4] # 0
    /\ SquaredDistance = 400
    /\ pixel[1] # background[1] /\ pixel[2] # background[2]
    /\ ~isContent

---------------------------------------------------------------------------
(* Properties of the BlobExtractor (stage 1), checked under SpecDetect *)

\* The ink pixels that share an edge with the ink pixel p.
EdgeMates(img, ink, p) ==
    {q \in {p - img.width, p + img.width} \cup
            (IF p % img.width > 0 THEN {p - 1} ELSE {}) \cup
            (IF p % img.width < img.width - 1 THEN {p + 1} ELSE {}) : q \in ink}

\* A set of ink pixels, grown by the ink pixels that share an edge with it.
Grow(img, ink, S) == S \cup {q \in ink \ S : EdgeMates(img, ink, q) \cap S # {}}

\* The least set of ink pixels that holds S and is closed under sharing an
\* edge; four steps are taken between two tests for the fixed point.
RECURSIVE Closure(_, _, _)
Closure(img, ink, S) ==
    LET next == Grow(img, ink, Grow(img, ink, Grow(img, ink, Grow(img, ink, S))))
    IN  IF next = S THEN S ELSE Closure(img, ink, next)

\* The maximal 4-connected regions of the pixels in `rest`, as a set of pairs
\* <<least pixel index of the region, the region's pixels>>.
RECURSIVE RegionsOf(_, _)
RegionsOf(img, rest) ==
    IF rest = {} THEN {}
    ELSE LET m == CHOOSE p \in rest : \A q \in rest : p <= q
             region == Closure(img, rest, {m})
         IN  {<<m, region>>} \cup RegionsOf(img, rest \ region)

Regions(img) == RegionsOf(img, InkPixels(img))

\* The tight bounding box of a set of pixels, as <<x, y, width, height>>.
TightBox(img, region) ==
    LET xs == {p % img.width : p \in region}
        ys == {p \div img.width : p \in region}
        lo(S) == CHOOSE v \in S : \A u \in S : v <= u
        hi(S) == CHOOSE v \in S : \A u \in S : v >= u
    IN  <<lo(xs), lo(ys), hi(xs) - lo(xs) + 1, hi(ys) - lo(ys) + 1>>

Uniform(img) ==
    \A p \in 0..(img.width * img.height - 1) : PixelAt(img, p) = PixelAt(img, 0)

\* The list stage 1 has just produced.
Scanned == detPc = "merge" /\ passes = 0

\* C11: stage 1 emits exactly one raw blob per maximal 4-connected region of
\* ink (the k-th blob belongs to the region with the k-th least first pixel),
\* its box is the region's tight bounding box, and an image whose pixels all
\* equal the top-left pixel yields an empty glyph list.
C11_OneBlobPerRegion ==
    /\ Scanned =>
          LET regs == Regions(image)
          IN  /\ Len(rawGlyphs) = Cardinality(regs)
              /\ \A k \in DOMAIN rawGlyphs :
                    \E r \in regs :
                        /\ Cardinality({u \in regs : u[1] < r[1]}) = k - 1
                        /\ <<rawGlyphs[k].x, rawGlyphs[k].y, rawGlyphs[k].width,
                              rawGlyphs[k].height>> = TightBox(image, r[2])
    /\ ((Scanned \/ detPc = "done") /\ Uniform(image)) =>
          (rawGlyphs = <<>> /\ finalGlyphs = <<>>)

\* The glyph (2,10,5,10) and the pixel (7,9) that touches its corner
\* diagonally: two blobs.
C11_Witness ==
    /\ Scanned
    /\ image.bg = Transparent
    /\ image.rects = Painted({5, 7}, 1, Black)
    /\ Len(rawGlyphs) = 2

\* C19: the merge loop terminates: a pass performs at most one merge, a merge
\* removes exactly one glyph from the working list, the loop goes on exactly
\* when the pass merged, and for n >= 1 blobs found by the scan the number of
\* passes is at most n.
C19_MergeTerminates ==
    [][(detPc = "merge" /\ detPc' = "merge") =>
          /\ passes' = passes + 1
          /\ Len(rawGlyphs') \in {Len(rawGlyphs), Len(rawGlyphs) - 1}
          /\ mergedOccurred' <=> Len(rawGlyphs') = Len(rawGlyphs) - 1
          /\ LET n == Len(ExtractBlobs(image))
             IN  n >= 1 => passes' <= n]_vars

\* Three blobs merged into one glyph: the loop has made its third and last pass.
C19_Witness ==
    /\ MergeDone
    /\ passes = 3
    /\ Len(rawGlyphs) = 1
    /\ Len(ExtractBlobs(image)) = 3

\* C20: every glyph detectGlyphs returns for a W x H image, merged or not, has
\* width >= 1, height >= 1, 0 <= x, 0 <= y, x + width <= W, y + height <= H,
\* xoffset = 0, yoffset >= 0 and xadvance = width + 1.
C20_GlyphGeometry ==
    detPc = "done" =>
        \A k \in DOMAIN finalGlyphs :
            LET g == finalGlyphs[k]
            IN  /\ g.width >= 1 /\ g.height >= 1
                /\ 0 <= g.x /\ 0 <= g.y
                /\ g.x + g.width <= image.width
                /\ g.y + g.height <= image.height
                /\ g.xoffset = 0
                /\ g.yoffset >= 0
                /\ g.xadvance = g.width + 1

\* A returned glyph that a merge made wider than the blob it started as,
\* next to a glyph below the top of its row.
C20_Witness ==
    /\ detPc = "done"
    /\ passes >= 2
    /\ \E k \in DOMAIN finalGlyphs :
          \E b \in DOMAIN ExtractBlobs(image) :
              /\ ExtractBlobs(image)[b].id = finalGlyphs[k].id
              /\ ExtractBlobs(image)[b].width < finalGlyphs[k].width
    /\ \E k \in DOMAIN finalGlyphs : finalGlyphs[k].yoffset > 0

---------------------------------------------------------------------------
(* Properties of the editor's identification, checked under SpecApp *)

\* C3: when a batch fails (identifyGlyphs throws) no further batch is sent,
\* and every label the earlier, successful batches returned is still written
\* to the corresponding glyph of the application's glyph list.
C3_PartialLabelsKept ==
    [][(idPc = "batch" /\ idPc' = "idle" /\ idOutcome' = "failed") =>
          /\ batchesSent' = batchesSent
          /\ \A idx \in DOMAIN allIdentifiedChars :
                (allIdentifiedChars[idx] # "" /\ idx + 1 \in DOMAIN glyphs') =>
                    glyphs'[idx + 1].char = allIdentifiedChars[idx]]_vars

\* The indices b of the entries of `replies` for the batch that held list
\* position p (0-based): one entry, or none when nothing was sent for p.
BatchOf(rs, p) ==
    {b \in DOMAIN rs : rs[b].start <= p /\ p < rs[b].start + BATCH_SIZE}

\* C15: when the response for a batch cannot be parsed the run goes on: it
\* does not fail, the next batch (if any) is sent, and when the labels are
\* applied no glyph in the index range of an unparseable batch is changed,
\* while every non-empty label of every other batch is written to its glyph.
C15_UnparseableSkipped ==
    [][/\ (Len(replies') = Len(replies) + 1 /\ ~replies'[Len(replies')].reply.parsed) =>
            /\ idOutcome' # "failed"
            /\ IF batchStart + BATCH_SIZE < base64Images
               THEN idPc' = "batch" /\ batchesSent' = batchesSent + 1
               ELSE idOutcome' = "applied"
       /\ (idPc = "batch" /\ idOutcome' = "applied") =>
            \A k \in DOMAIN glyphs :
                /\ BatchOf(replies', k - 1) = {} => glyphs'[k] = glyphs[k]
                /\ \A b \in BatchOf(replies', k - 1) :
                      LET e == replies'[b]
                          at == k - e.start
                      IN  /\ ~e.reply.parsed => glyphs'[k] = glyphs[k]
                          /\ (e.reply.parsed /\ at \in DOMAIN e.reply.charArray
                                /\ e.reply.charArray[at] # "") =>
                                  glyphs'[k].char = e.reply.charArray[at]]_vars

\* Three batches, the second unparseable: the first and the third are applied.
C15_Witness ==
    /\ idOutcome = "applied"
    /\ Len(replies) = 3
    /\ replies[1].reply.parsed /\ ~replies[2].reply.parsed /\ replies[3].reply.parsed
    /\ Len(glyphs) = 2 * BATCH_SIZE + 1
    /\ glyphs[1].char = "A" /\ glyphs[BATCH_SIZE + 1].char = ""
    /\ glyphs[2 * BATCH_SIZE + 1].char = "A"

\* C16: after generateFnt has written the file, reading its char lines back
\* gives, in list order, each glyph's own x, y, width, height, xoffset,
\* yoffset and xadvance and the code of its character (-1 when it has none),
\* and the "chars count" value is the number of char lines.
C16_RoundTrip ==
    fntPc = "written" =>
        LET parsed == ParsedChars(fntText)
        IN  /\ Len(parsed) = Len(fntGlyphs)
            /\ ParsedCount(fntText) = Len(parsed)
            /\ \A k \in 1..Len(parsed) : parsed[k] = OwnFields(fntGlyphs[k])

\* the part of C16 that does not involve xadvance
C16_OtherFields ==
    fntPc = "written" =>
        LET parsed == ParsedChars(fntText)
        IN  /\ Len(parsed) = Len(fntGlyphs)
            /\ ParsedCount(fntText) = Len(parsed)
            /\ \A k \in 1..Len(parsed) :
                   [parsed[k] EXCEPT !.xadvance = 0]
                       = [OwnFields(fntGlyphs[k]) EXCEPT !.xadvance = 0]

\* what the file holds instead: the advance with the tracking added
C16_TrackedAdvance ==
    fntPc = "written" =>
        \A k \in 1..Len(fntGlyphs) :
            ParsedChars(fntText)[k].xadvance = fntGlyphs[k].xadvance + fntTracking

\* C14: when a repack of a glyph list that detectGlyphs returned for the
\* sheet resolves, the glyph at every list position has the id of the glyph
\* that was at that position in the list passed to packTexture.
C14_OrderStable ==
    [][(RepackResolved /\ rpImage = sheet /\ rpGlyphs \in DetectGlyphs(sheet)) =>
          /\ Len(glyphs') = Len(rpGlyphs)
          /\ \A k \in 1..Len(rpGlyphs) : glyphs'[k].id = rpGlyphs[k].id]_vars

\* a repack of a freshly detected list of at least two glyphs has resolved
C14_Witness ==
    /\ imageSrc = "atlas" /\ Len(glyphs) >= 2
    /\ \E d \in DetectGlyphs(sheet) :
          /\ Len(d) = Len(glyphs)
          /\ \A k \in 1..Len(d) : \E j \in 1..Len(glyphs) :
                 glyphs[j].id = d[k].id /\ glyphs[j].width = d[k].width

\* C18: when handleIdentifyChars applies its results, a non-empty result for
\* position p goes to the glyph whose crop was sent at position p, wherever
\* it is in the list now, and the glyph now at position p is written only
\* if it is that glyph.
C18_LabelsFollowGlyphs ==
    [][(idPc = "batch" /\ idOutcome' = "applied") =>
          \A p \in DOMAIN allIdentifiedChars' :
              allIdentifiedChars'[p] # "" =>
                  /\ p + 1 <= Len(glyphs) => glyphs[p + 1].id = sentIds[p + 1]
                  /\ \A k \in 1..Len(glyphs) :
                         glyphs[k].id = sentIds[p + 1] =>
                             glyphs'[k].char = allIdentifiedChars'[p]]_vars

\* results were applied after the list had lost a glyph that was sent
C18_Witness ==
    /\ idOutcome = "applied"
    /\ Len(glyphs) < Len(sentIds)
    /\ \E k \in 1..Len(glyphs) : glyphs[k].char # ""

---------------------------------------------------------------------------
(* Properties of the RowOrganizer's layout, checked under SpecDetect *)

\* the glyph without its yoffset, which the RowOrganizer sets
SansOffset(g) == [g EXCEPT !.yoffset = 0]

\* the number of glyphs in the rows before row r
RECURSIVE RowStart(_, _)
RowStart(rs, r) == IF r <= 1 THEN 0 ELSE RowStart(rs, r - 1) + Len(rs[r - 1])

\* C21: when the RowOrganizer closes its last row, the output holds every
\* glyph of the merged list once and no other (up to yoffset); the members
\* of each row it built are contiguous in the output, the rows are in the
\* order they were opened, and x is non-decreasing within each row.
C21_RowMajor ==
    [][(detPc = "group" /\ detPc' = "done") =>
          LET built == IF Len(rawGlyphs) > 0 THEN Append(rows, currentRow) ELSE rows
              out   == finalGlyphs'
          IN  /\ Len(out) = Len(rawGlyphs)
              /\ \A k \in DOMAIN rawGlyphs :
                    Cardinality({j \in DOMAIN out :
                                    SansOffset(out[j]) = SansOffset(rawGlyphs[k])})
                      = Cardinality({j \in DOMAIN rawGlyphs : 
                                    SansOffset(rawGlyphs[j]) = SansOffset(rawGlyphs[k])})
              /\ \A r \in DOMAIN built :
                    LET from == RowStart(built, r)
                    IN  /\ {SansOffset(out[from + k]) : k \in 1..Len(built[r])}
                             = {SansOffset(built[r][k]) : k \in 1..Len(built[r])}
                        /\ \A k \in 1..(Len(built[r]) - 1) :
                              out[from + k].x <= out[from + k + 1].x]_vars

\* An output of at least two rows, one of them with two glyphs or more.
C21_Witness ==
    /\ detPc = "done"
    /\ Len(rows) >= 2
    /\ \E r \in DOMAIN rows : Len(rows[r]) >= 2 /\ rows[r][1].x < rows[r][2].x

\* The first pixel, in row-major order, of the region of ink whose tight box
\* is the box of g.
FirstPixel(img, regs, g) ==
    (CHOOSE r \in regs : TightBox(img, r[2]) = <<g.x, g.y, g.width, g.height>>)[1]

\* C22: the blobs stage 1 has found carry the ids 0, 1, ..., k-1 in list
\* order; one blob has a smaller id than another exactly when its first pixel
\* in row-major order comes before the other's; and a second run on the same
\* pixels gives the same list.
C22_IdsInScanOrder ==
    Scanned =>
        LET regs == Regions(image)
        IN  /\ \A k \in DOMAIN rawGlyphs : rawGlyphs[k].id = k - 1
            /\ \A a, b \in DOMAIN rawGlyphs :
                  rawGlyphs[a].id < rawGlyphs[b].id
                    <=> FirstPixel(image, regs, rawGlyphs[a])
                          < FirstPixel(image, regs, rawGlyphs[b])
            /\ ExtractBlobs(image) = rawGlyphs

\* Three blobs, the second found to the left of the first.
C22_Witness ==
    /\ Scanned
    /\ Len(rawGlyphs) = 3
    /\ rawGlyphs[2].x < rawGlyphs[1].x
    /\ rawGlyphs[2].y > rawGlyphs[1].y

\* C27: while the RowOrganizer builds a row, the band
\* [currentRowY, currentRowY + currentRowH] holds the vertical extent
\* [y, y + height] of every glyph of the open row.
C27_RowBand ==
    detPc = "group" =>
        \A k \in DOMAIN currentRow :
            /\ currentRowY <= currentRow[k].y
            /\ currentRow[k].y + currentRow[k].height <= currentRowY + currentRowH

\* the part of C27 that holds: the band starts at the least y of the open row
C27_BandTop ==
    detPc = "group" =>
        \A k \in DOMAIN currentRow : currentRowY <= currentRow[k].y

---------------------------------------------------------------------------
(* Properties of the editor on a sheet of pixels, checked under SpecEdit *)

\* the glyph list handleAlignBaseline leaves, from the detected list and the
\* list `prev` whose char and id are carried over when the counts match
Realigned(detected, prev) ==
    IF Len(detected) = Len(prev)
    THEN [i \in 1..Len(detected) |->
             [detected[i] EXCEPT !.char = prev[i].char, !.id = prev[i].id]]
    ELSE detected

\* C23: when handleAlignBaseline applies a re-detection, the new list is the
\* detected list with char and id taken, position by position, from the list
\* present at that moment if the two have the same length; otherwise it is
\* the detected list, every char empty.
C23_RealignCurrentList ==
    [][AlignApplied =>
          \E detected \in DetectGlyphs(alImage) :
              /\ glyphs' = Realigned(detected, glyphs)
              /\ Len(detected) # Len(glyphs) =>
                    \A i \in DOMAIN glyphs' : glyphs'[i].char = ""]_vars

\* what the code does: char and id come from the list of the render in which
\* the button was clicked
C23_RealignClickedList ==
    [][AlignApplied =>
          \E detected \in DetectGlyphs(alImage) :
              /\ glyphs' = Realigned(detected, alGlyphs)
              /\ Len(detected) # Len(alGlyphs) =>
                    \A i \in DOMAIN glyphs' : glyphs'[i].char = ""]_vars

\* C24: whatever sequence of upload, identification, re-detection, repack,
\* update, delete and manual merge has run, no two glyphs of the list carry
\* the same id.
C24_DistinctIds ==
    \A a, b \in 1..Len(glyphs) : a # b => glyphs[a].id # glyphs[b].id

\* a list of several glyphs left by a manual merge, an update or a delete
C24_Witness ==
    /\ ops = MaxOps
    /\ Len(glyphs) >= 2
    /\ \/ \E k \in 1..Len(glyphs) : glyphs[k].xoffset = 1
       \/ /\ Len(glyphs) < Len(sheet.rects)
          /\ selectedGlyphIds # <<>>

\* C26: whenever toolState is IDLE, neither an identification
\* (handleIdentifyChars) nor a repack (handleRepack) is still in flight.
C26_IdleMeansQuiet ==
    toolState = "IDLE" => (idPc = "idle" /\ rpPc = "idle")

\* C26, the part that holds: an identification and a repack that run at the
\* same time started from a tool state that was not PROCESSING_IMAGE, since
\* that is the only state in which the repack button is disabled.
C26_RepackGate ==
    [][StartRepack => toolState # "PROCESSING_IMAGE"]_vars

\* C26, the reading without uploads: a repack never finishes and sets IDLE
\* while an identification is pending, nor the other way round.
C26_NoFinishWhilePending ==
    [][/\ (rpPc = "packing" /\ rpPc' = "idle") => idPc = "idle"
       /\ (idPc # "idle" /\ idPc' = "idle") => rpPc = "idle"]_vars

\* C28: every id in selectedGlyphIds is the id of a glyph of the current list.
C28_SelectionInList ==
    \A k \in 1..Len(selectedGlyphIds) :
        \E j \in 1..Len(glyphs) : glyphs[j].id = selectedGlyphIds[k]

---------------------------------------------------------------------------
(* The tool state over time, checked under SpecLive *)

\* C25: once an upload, an identification or a repack has started, toolState
\* eventually returns to IDLE, an upload of a file that cannot be decoded
\* included.
C25_ReturnsToIdle == (toolState # "IDLE") ~> (toolState = "IDLE")

\* C25, the part that holds: toolState returns to IDLE unless the source is
\* a file that cannot be decoded.
C25_ReturnsUnlessBroken ==
    (toolState # "IDLE") ~> (toolState = "IDLE" \/ imageSrc = "broken")

=============================================================================
